---- MODULE Spec2Model ----
(***************************************************************************)
(* ContactCRM: the background synchronisation orchestrator                 *)
(* (services/backgroundSync.ts) and the remote contact store operations    *)
(* (services/contactService.ts), the permission gateway                    *)
(* (AndroidCallLogService, CallLogModule.java) and the phone number        *)
(* normalizer (services/phoneNumberUtils.ts).                              *)
(*                                                                         *)
(* Spec      : the orchestrator. Two manual syncAllDeviceData calls, the   *)
(*             scheduled DEVICE_SYNC_TASK (with its inner                  *)
(*             syncAllDeviceData call) and the BACKGROUND_SYNC_TASK share  *)
(*             the module-level isSyncing / lastSyncTime. A pass wrapper   *)
(*             races the pass's work against a timer; work that loses the  *)
(*             race keeps running. Timer delays are lower bounds only, so  *)
(*             a timer may fire at any step while its race is pending.     *)
(* LiveSpec  : Spec plus weak fairness of the timers and of the            *)
(*             continuations the JavaScript event loop runs.               *)
(* StoreSpec : two clients run createContact, updateContact, deleteContact *)
(*             and Pass A (syncDeviceContacts) against the remote contacts *)
(*             table and the device address book, one step per await.      *)
(* PassASpec : StoreSpec started from address books whose entries differ  *)
(*             from their stored form or share one canonical number.       *)
(* MirrorSpec: Pass B (syncServerContactsToDevice) writes the remote       *)
(*             contacts into the device address book while deleteContact   *)
(*             runs beside it.                                             *)
(* CallSpec  : Pass C (syncCallLogs) logs the device call log through      *)
(*             logCall, one select and one insert per entry, the entries   *)
(*             of a batch concurrently, while the ContactService           *)
(*             operations and Pass A run beside it.                        *)
(* GateSpec  : the permission gateway and the device reads of            *)
(*             AndroidCallLogService with the native CallLogModule:        *)
(*             queued requestPermissions calls, hasCriticalPermissions,    *)
(*             getCallLogs and getContacts, each native call racing a      *)
(*             timer.                                                      *)
(* GateLiveSpec: the requestPermissions calls of GateSpec with weak        *)
(*             fairness of the request's timer and continuations.          *)
(* NormSpec  : normalizeIranianPhoneNumber applied to one input drawn from *)
(*             the written forms of mobile, landline and other numbers.    *)
(* RegSpec   : registerBackgroundSync, registerDeviceDataSync and          *)
(*             unregisterBackgroundSync against the OS background-fetch    *)
(*             facility, one step per await.                               *)
(* AuthSpec  : the onAuthStateChange callback and signOut of AuthContext   *)
(*             against the stored 'auth-user-id' key, one step per await.  *)
(***************************************************************************)
EXTENDS Integers, Sequences, FiniteSets, TLC

VARIABLES
    isSyncing,      \* backgroundSync.ts: let isSyncing
    lastSyncTime,   \* backgroundSync.ts: let lastSyncTime
    now,            \* Date.now()
    holder,         \* history: the invocation that set isSyncing, or "none"
    pc,             \* position of each syncAllDeviceData invocation
    res,            \* result of each syncAllDeviceData invocation
    overall,        \* results.overallSuccess of each invocation
    work,           \* the wrapped work of each pass of each invocation
    attempted,      \* history: pass wrappers each invocation has entered
    entry,          \* history: was each manual call made inside the cooldown window
    remoteWrites,   \* has pass work written to the remote store
    deviceWrites,   \* has pass work written to the device address book
    tpc,            \* position of each scheduled task
    tres,           \* BackgroundFetchResult of each scheduled task
    tentry,         \* history: how each scheduled task passed its entry checks
    fetch,          \* the server fetch of BACKGROUND_SYNC_TASK
    storedUser,     \* AsyncStorage value under USER_ID_KEY
    callLogPerm,    \* OS grant of READ_CALL_LOG
    contactsPerm,   \* OS grant of READ_CONTACTS
    quota,          \* number of user calls and task firings of the behaviour
    contacts,       \* rows of the remote contacts table
    nextId,         \* next id the remote store assigns
    device,         \* the device address book, one entry per phone row
    proc,           \* the ContactService operation each client is executing
    opsStarted,     \* number of ContactService operations started
    opsQuota,       \* number of ContactService operations of the behaviour
    book,           \* the device address book as expo-contacts presents it
    nextBookId,     \* next id the device assigns to a contact
    brun,           \* the syncServerContactsToDevice run in progress
    bruns,          \* number of Pass B runs started
    callLog,        \* the device call log
    calls,          \* rows of the remote calls table
    crun,           \* the syncCallLogs run in progress
    cruns,          \* number of Pass C runs started
    runQuota,       \* number of pass runs of the behaviour
    isAndroid,      \* AndroidCallLogService.isAndroid: Platform.OS === 'android'
    isRequestingPermissions, \* AndroidCallLogService.isRequestingPermissions
    requestPromise, \* AndroidCallLogService.requestPromise: a request, or 0 for null
    flow,           \* the promise of each permission request started
    rcall,          \* each caller of requestPermissions
    nativeRequesting,  \* CallLogModule.isRequestingPermissions
    permissionPromise, \* CallLogModule.permissionPromise: a request, or 0 for null
    dialogs,        \* OS permission requests in flight
    phoneStatePerm, \* OS grant of READ_PHONE_STATE
    chk,            \* each caller of a permission check or device read
    gateQuota,      \* number of gateway and adapter calls of the behaviour
    normIn,         \* the string given to normalizeIranianPhoneNumber
    normOut,        \* what it returned
    bgStatus,       \* BackgroundFetch.getStatusAsync()
    registered,     \* the tasks registered with the OS facility
    isTaskRegistered, \* backgroundSync.ts: let isTaskRegistered
    reg,            \* position of each register / unregister call
    registerTaskAsyncCalls, \* history: registerTaskAsync invocations per task
    regQuota,       \* number of register / unregister calls of the behaviour
    session,        \* the Supabase auth session
    user,           \* AuthContext.tsx: the user state of AuthProvider
    handler,        \* the onAuthStateChange callback invocations
    so,             \* position of the signOut call
    authOps,        \* sign-ins and sign-outs made
    authQuota       \* number of sign-ins and sign-outs of the behaviour

syncVars == <<isSyncing, lastSyncTime, now, holder, pc, res, overall, work,
              attempted, entry, remoteWrites, deviceWrites, tpc, tres, tentry,
              fetch, storedUser, callLogPerm, contactsPerm, quota>>

storeVars == <<contacts, nextId, device, proc, opsStarted, opsQuota>>

mirrorVars == <<book, nextBookId, brun, bruns>>

callVars == <<callLog, calls, crun, cruns>>

gateVars == <<isAndroid, isRequestingPermissions, requestPromise, flow, rcall,
              nativeRequesting, permissionPromise, dialogs, phoneStatePerm,
              chk, gateQuota>>

normVars == <<normIn, normOut>>

regVars == <<bgStatus, registered, isTaskRegistered, reg,
             registerTaskAsyncCalls, regQuota>>

authVars == <<session, user, handler, so, authOps, authQuota>>

appVars == <<regVars, authVars>>

passVars == <<mirrorVars, callVars, runQuota, gateVars, normVars, appVars>>

vars == <<syncVars, storeVars, passVars>>

\* ---------------------------------------------------------------- bounds
StartTime == 60000
TickMs == 60000
MaxTicks == 1
MaxInvocations == 2
MaxLiveInvocations == 1

\* ------------------------------------------------------------- constants
SYNC_COOLDOWN == 60000

Manual == {"m1", "m2"}
Callers == Manual \cup {"d"}
Passes == {"A", "B", "C"}
DEVICE_SYNC_TASK == "dtask"
BACKGROUND_SYNC_TASK == "btask"
Tasks == {DEVICE_SYNC_TASK, BACKGROUND_SYNC_TASK}

PassOf(p) == IF p \in {"A_perm", "A_wait"} THEN "A"
             ELSE IF p \in {"B_import", "B_wait"} THEN "B" ELSE "C"

\* AndroidCallLogService.hasCriticalPermissions, when the OS answers both checks
hasCriticalPermissions == callLogPerm /\ contactsPerm

Returned(i) == pc[i] = "done" /\ res[i] \in {"success", "failure"}

\* The user calls and task firings made so far; a behaviour holds at most
\* quota of them.
Invoked == {i \in Manual : pc[i] # "idle"} \cup {t \in Tasks : tpc[t] # "idle"}
MayInvoke == Cardinality(Invoked) < quota

\* ------------------------------------- the permission gateway and adapters
\* bound of the gateway specification
MaxGateOps == 2

GateCallers == 1..MaxGateOps
Perms == {"READ_CALL_LOG", "READ_CONTACTS", "READ_PHONE_STATE"}
Readers == {"hasCriticalPermissions", "getCallLogs", "getContacts"}

\* A request not started, a caller that has not called.
FlowNone == [state |-> "none", os |-> "none", result |-> FALSE]
RIdle == [at |-> "idle", on |-> 0, result |-> FALSE]
KIdle == [at |-> "idle", check |-> [m \in Perms |-> "none"],
          native |-> "none", granted |-> FALSE, list |-> <<>>]

\* normalizeIranianPhoneNumber has not been called.
NotCalled == [done |-> FALSE, normalized |-> <<>>, isValid |-> FALSE,
              type |-> "unknown"]

\* bounds of the registration and of the sign-in specification
MaxRegOps == 2
MaxAuthOps == 3

RegCallers == 1..MaxRegOps
AuthEvents == 1..MaxAuthOps

\* A register / unregister call not made, an auth event not delivered, no
\* signOut in progress.
RegIdle == [kind |-> "none", at |-> "idle", task |-> "none", idx |-> 0,
            result |-> "none"]
HNone == [at |-> "none", user |-> "none"]

\* The registration as the other specifications leave it.
RegFrozen ==
    /\ bgStatus = "Available"
    /\ registered = {}
    /\ isTaskRegistered = FALSE
    /\ reg = [c \in RegCallers |-> RegIdle]
    /\ registerTaskAsyncCalls = [t \in Tasks |-> 0]
    /\ regQuota = 0

\* The sign-in state as the other specifications leave it.
AuthFrozen ==
    /\ session = "none"
    /\ user = "none"
    /\ handler = [e \in AuthEvents |-> HNone]
    /\ so = "idle"
    /\ authOps = 0
    /\ authQuota = 0

\* The gateway, the normalizer, the registration and the sign-in state as
\* the other specifications leave them.
GateFrozen ==
    /\ RegFrozen
    /\ AuthFrozen
    /\ isAndroid = TRUE
    /\ isRequestingPermissions = FALSE
    /\ requestPromise = 0
    /\ flow = [k \in GateCallers |-> FlowNone]
    /\ rcall = [c \in GateCallers |-> RIdle]
    /\ nativeRequesting = FALSE
    /\ permissionPromise = 0
    /\ dialogs = 0
    /\ phoneStatePerm = FALSE
    /\ chk = [r \in Readers |-> KIdle]
    /\ gateQuota = 0
    /\ normIn = <<>>
    /\ normOut = NotCalled

\* ------------------------------------------------- the remote contact store
\* bounds of the store specification
MaxOps == 2
MaxDevice == 2

Procs == {"p1", "p2"}
Users == {"U1", "U2"}

\* Strings are sequences of one-character strings.
Digits == {"0", "1", "2", "3", "4", "5", "6", "7", "8", "9"}

\* String.prototype.startsWith
StartsWith(s, pre) == Len(s) >= Len(pre) /\ SubSeq(s, 1, Len(pre)) = pre

\* String.prototype.substring(k) and substring(a, b)
SubstringFrom(s, k) == SubSeq(s, k + 1, Len(s))
Substring(s, a, b) == SubSeq(s, a + 1, b)

\* String.prototype.trim
RECURSIVE TrimLeft(_)
TrimLeft(s) == IF s # <<>> /\ Head(s) = " " THEN TrimLeft(Tail(s)) ELSE s
RECURSIVE TrimRight(_)
TrimRight(s) == IF s # <<>> /\ s[Len(s)] = " "
                THEN TrimRight(SubSeq(s, 1, Len(s) - 1)) ELSE s
Trim(s) == TrimRight(TrimLeft(s))

validAreaCodes ==
    { <<a, b>> : a \in {"1", "2", "3", "4", "5", "6", "7", "8", "9"},
                 b \in {"1", "3", "7"} }

InvalidNumber == [normalized |-> <<>>, isValid |-> FALSE, type |-> "unknown"]
Plus98(s) == <<"+", "9", "8">> \o s

\* phoneNumberUtils.normalizeIranianPhoneNumber
normalizeIranianPhoneNumber(phoneNumber) ==
    IF phoneNumber = <<>> THEN InvalidNumber
    ELSE
    LET kept == SelectSeq(phoneNumber, LAMBDA c : c \in Digits \cup {"+"})
        cleaned == IF StartsWith(kept, <<"+">>) THEN SubstringFrom(kept, 1) ELSE kept
        number98 == SubstringFrom(cleaned, 2)
        domestic == StartsWith(cleaned, <<"0">>)
        cleaned0 == IF domestic THEN SubstringFrom(cleaned, 1) ELSE cleaned
        areaCode == Substring(cleaned0, 0, Len(cleaned0) - 7)
        number == SubstringFrom(cleaned0, Len(cleaned0) - 7)
    IN  IF /\ StartsWith(cleaned, <<"9", "8">>)
           /\ Len(cleaned) = 12
           /\ StartsWith(number98, <<"9">>)
        THEN [normalized |-> Plus98(number98),
              isValid |-> Len(number98) = 10,
              type |-> "mobile"]
        ELSE IF domestic /\ StartsWith(cleaned0, <<"9">>) /\ Len(cleaned0) = 10
        THEN [normalized |-> Plus98(cleaned0), isValid |-> TRUE, type |-> "mobile"]
        ELSE IF /\ domestic
                /\ Len(cleaned0) >= 10 /\ Len(cleaned0) <= 11
                /\ areaCode \in validAreaCodes
                /\ Len(number) = 7
        THEN [normalized |-> Plus98(cleaned0), isValid |-> TRUE, type |-> "landline"]
        ELSE IF StartsWith(cleaned0, <<"9">>) /\ Len(cleaned0) = 10
        THEN [normalized |-> Plus98(cleaned0), isValid |-> TRUE, type |-> "mobile"]
        ELSE InvalidNumber

\* The key two numbers share when they denote the same contact: the
\* normalized form, or the string itself when it does not normalize.
CanonicalOf(s) ==
    LET n == normalizeIranianPhoneNumber(s)
    IN  IF n.isValid THEN n.normalized ELSE s

\* Arguments the callers pass.
NameAli == <<"A", "l", "i">>
NameSara == <<"S", "a", "r", "a", " ">>
Names == {NameAli, NameSara}

MobileDomestic == <<"0", "9", "1", "2", "-", "1", "1", "1", "1", "1", "1", "1">>
MobileIntl == <<"+", "9", "8", "9", "1", "2", "1", "1", "1", "1", "1", "1", "1">>
MobileOther == <<" ", "9", "3", "5", "2", "2", "2", "2", "2", "2", "2">>
TooShort == <<"0", "9", "1", "2">>
RawNumbers == {MobileDomestic, MobileIntl, MobileOther, TooShort}

\* Address books the device may hold before the app first runs.
InitialDevices ==
    { <<>>,
      <<[name |-> NameAli, number |-> <<>>]>>,
      <<[name |-> NameSara, number |-> MobileDomestic],
        [name |-> NameAli, number |-> TooShort]>> }

Idle == [kind |-> "none", at |-> "idle", parent |-> "none", user |-> "none",
         name |-> <<>>, phone |-> <<>>, norm |-> <<>>, id |-> 0,
         list |-> <<>>, idx |-> 0, added |-> 0, updated |-> 0, errors |-> 0,
         result |-> "none", errorName |-> <<>>,
         ranFor |-> "none", rerun |-> FALSE]

\* Tables the remote store may hold when the clients start: nothing, or what an
\* earlier createContact call of U1 has inserted.
RowAli == [id |-> 1, name |-> NameAli, phone_number |-> MobileIntl,
           created_by_user_id |-> "U1"]
InitialStores == { {}, {RowAli} }

StoreInit ==
    /\ contacts \in InitialStores
    /\ nextId = Cardinality(contacts) + 1
    /\ device \in InitialDevices
    /\ proc = [p \in Procs |-> Idle]
    /\ opsStarted = 0
    /\ opsQuota = MaxOps

\* A pass that is not running.
BIdle == [at |-> "idle", server |-> <<>>, snap |-> <<>>, idx |-> 0,
          added |-> 0, updated |-> 0, errors |-> 0, result |-> "none"]
CIdle == [at |-> "idle", user |-> "none", log |-> <<>>, base |-> 0,
          step |-> <<>>, cid |-> <<>>, synced |-> 0, errors |-> 0,
          result |-> "none", full |-> 0]

\* The passes as the other specifications leave them.
PassFrozen ==
    /\ book = <<>>
    /\ nextBookId = 1
    /\ brun = BIdle
    /\ bruns = 0
    /\ callLog = <<>>
    /\ calls = <<>>
    /\ crun = CIdle
    /\ cruns = 0
    /\ runQuota = 0
    /\ GateFrozen

\* The store as the orchestrator specification leaves it.
StoreFrozen ==
    /\ contacts = {}
    /\ nextId = 1
    /\ device = <<>>
    /\ proc = [p \in Procs |-> Idle]
    /\ opsStarted = 0
    /\ opsQuota = 0

\* ---------------------------------------------------------------- Init
SyncInit(q) ==
    /\ quota = q
    /\ isSyncing = FALSE
    /\ lastSyncTime = 0
    /\ now = StartTime
    /\ holder = "none"
    /\ pc = [i \in Callers |-> "idle"]
    /\ res = [i \in Callers |-> "none"]
    /\ overall = [i \in Callers |-> TRUE]
    /\ work = [i \in Callers |-> [p \in Passes |-> "none"]]
    /\ attempted = [i \in Callers |-> {}]
    /\ entry = [i \in Manual |-> "none"]
    /\ remoteWrites = FALSE
    /\ deviceWrites = FALSE
    /\ tpc = [t \in Tasks |-> "idle"]
    /\ tres = [t \in Tasks |-> "none"]
    /\ tentry = [t \in Tasks |-> "none"]
    /\ fetch = "none"
    /\ storedUser \in {"none", "u1"}
    /\ callLogPerm \in BOOLEAN
    /\ contactsPerm \in BOOLEAN

Init == SyncInit(MaxInvocations) /\ StoreFrozen /\ PassFrozen

\* ------------------------------------------------- syncAllDeviceData body
\* Variant: the start time is recorded before the in-progress check.
SyncAllEnter_StampFirst(i) ==
    IF isSyncing
    THEN /\ pc' = [pc EXCEPT ![i] = "done"]
         /\ res' = [res EXCEPT ![i] = "skipped"]
         /\ lastSyncTime' = now
         /\ UNCHANGED <<isSyncing, holder, attempted, overall>>
    ELSE /\ isSyncing' = TRUE
         /\ lastSyncTime' = now
         /\ holder' = i
         /\ pc' = [pc EXCEPT ![i] = "A_perm"]
         /\ overall' = [overall EXCEPT ![i] = TRUE]
         /\ attempted' = [attempted EXCEPT ![i] = {"A"}]
         /\ UNCHANGED res

\* Variant: the manual entry point applies the scheduled tasks' cooldown.
SyncAllEnter_WithCooldown(i) ==
    IF isSyncing \/ now - lastSyncTime < SYNC_COOLDOWN
    THEN /\ pc' = [pc EXCEPT ![i] = "done"]
         /\ res' = [res EXCEPT ![i] = "skipped"]
         /\ UNCHANGED <<isSyncing, lastSyncTime, holder, attempted, overall>>
    ELSE /\ isSyncing' = TRUE
         /\ lastSyncTime' = now
         /\ holder' = i
         /\ pc' = [pc EXCEPT ![i] = "A_perm"]
         /\ overall' = [overall EXCEPT ![i] = TRUE]
         /\ attempted' = [attempted EXCEPT ![i] = {"A"}]
         /\ UNCHANGED res

\* Variant: the in-progress check sits inside the try block, so the skipped
\* call runs the finally block too.
SyncAllEnter_GuardInTry(i) ==
    IF isSyncing
    THEN /\ pc' = [pc EXCEPT ![i] = "done"]
         /\ res' = [res EXCEPT ![i] = "skipped"]
         /\ isSyncing' = FALSE
         /\ holder' = "none"
         /\ UNCHANGED <<lastSyncTime, attempted, overall>>
    ELSE /\ isSyncing' = TRUE
         /\ lastSyncTime' = now
         /\ holder' = i
         /\ pc' = [pc EXCEPT ![i] = "A_perm"]
         /\ overall' = [overall EXCEPT ![i] = TRUE]
         /\ attempted' = [attempted EXCEPT ![i] = {"A"}]
         /\ UNCHANGED res

\* Lines 383-403 and the synchronous start of syncContactsFromDevice.
SyncAllEnter(i) ==
    IF isSyncing
    THEN /\ pc' = [pc EXCEPT ![i] = "done"]
         /\ res' = [res EXCEPT ![i] = "skipped"]
         /\ UNCHANGED <<isSyncing, lastSyncTime, holder, attempted, overall>>
    ELSE /\ isSyncing' = TRUE
         /\ lastSyncTime' = now
         /\ holder' = i
         /\ pc' = [pc EXCEPT ![i] = "A_perm"]
         /\ overall' = [overall EXCEPT ![i] = TRUE]
         /\ attempted' = [attempted EXCEPT ![i] = {"A"}]
         /\ UNCHANGED res

\* Variant: no finally block, the flag stays set when the run finishes.
Advance_NoFinally(i, p, ok) ==
    LET ov == overall[i] /\ ok IN
    /\ overall' = [overall EXCEPT ![i] = ov]
    /\ IF p = "A"
       THEN /\ pc' = [pc EXCEPT ![i] = "B_import"]
            /\ attempted' = [attempted EXCEPT ![i] = @ \cup {"B"}]
            /\ UNCHANGED <<res, isSyncing, holder>>
       ELSE IF p = "B"
       THEN /\ pc' = [pc EXCEPT ![i] = "C_perm"]
            /\ attempted' = [attempted EXCEPT ![i] = @ \cup {"C"}]
            /\ UNCHANGED <<res, isSyncing, holder>>
       ELSE /\ pc' = [pc EXCEPT ![i] = "done"]
            /\ res' = [res EXCEPT ![i] = IF ov THEN "success" ELSE "failure"]
            /\ UNCHANGED <<attempted, isSyncing, holder>>

\* The code after a pass wrapper has returned its result (ok = its success
\* flag): fold it into results, then enter the next wrapper, or finish and run
\* the finally block.
Advance(i, p, ok) ==
    LET ov == overall[i] /\ ok IN
    /\ overall' = [overall EXCEPT ![i] = ov]
    /\ IF p = "A"
       THEN /\ pc' = [pc EXCEPT ![i] = "B_import"]
            /\ attempted' = [attempted EXCEPT ![i] = @ \cup {"B"}]
            /\ UNCHANGED <<res, isSyncing, holder>>
       ELSE IF p = "B"
       THEN /\ pc' = [pc EXCEPT ![i] = "C_perm"]
            /\ attempted' = [attempted EXCEPT ![i] = @ \cup {"C"}]
            /\ UNCHANGED <<res, isSyncing, holder>>
       ELSE /\ pc' = [pc EXCEPT ![i] = "done"]
            /\ res' = [res EXCEPT ![i] = IF ov THEN "success" ELSE "failure"]
            /\ isSyncing' = FALSE
            /\ holder' = "none"
            /\ UNCHANGED attempted

\* A user action (manual sync button, app start) calls syncAllDeviceData.
ManualSync(i) ==
    /\ i \in Manual
    /\ pc[i] = "idle"
    /\ MayInvoke
    /\ SyncAllEnter(i)
    /\ entry' = [entry EXCEPT ![i] =
                    IF now - lastSyncTime < SYNC_COOLDOWN THEN "inside" ELSE "outside"]
    /\ UNCHANGED <<now, work, remoteWrites, deviceWrites, tpc, tres, tentry,
                   fetch, storedUser, callLogPerm, contactsPerm, quota, storeVars, passVars>>

\* The permission gate of Pass A and Pass C, given the gate's answer.
PermResult(i, ok) ==
    /\ pc[i] \in {"A_perm", "C_perm"}
    /\ IF ok
       THEN /\ work' = [work EXCEPT ![i][PassOf(pc[i])] = "running"]
            /\ pc' = [pc EXCEPT ![i] = IF pc[i] = "A_perm" THEN "A_wait" ELSE "C_wait"]
            /\ UNCHANGED <<overall, attempted, res, isSyncing, holder>>
       ELSE /\ Advance(i, PassOf(pc[i]), FALSE)
            /\ UNCHANGED work
    /\ UNCHANGED <<lastSyncTime, now, entry, remoteWrites, deviceWrites, tpc,
                   tres, tentry, fetch, storedUser, callLogPerm, contactsPerm, quota, storeVars, passVars>>

\* The OS answers both permission checks.
PermAnswer(i) == PermResult(i, hasCriticalPermissions)

\* A permission check's 5 s timer fires first: isPermissionGranted gives false.
PermTimeout(i) == PermResult(i, FALSE)

\* syncContactsToDevice: the dynamic import resolves, the work starts.
ImportDone(i) ==
    /\ pc[i] = "B_import"
    /\ pc' = [pc EXCEPT ![i] = "B_wait"]
    /\ work' = [work EXCEPT ![i]["B"] = "running"]
    /\ UNCHANGED <<isSyncing, lastSyncTime, now, holder, res, overall, attempted,
                   entry, remoteWrites, deviceWrites, tpc, tres, tentry, fetch,
                   storedUser, callLogPerm, contactsPerm, quota, storeVars, passVars>>

\* The work of a pass writes a row: Pass A (createContact, updateContact) and
\* Pass C (logCall) to the remote store, Pass B (addContactAsync,
\* updateContactAsync) to the device address book.
WorkWrite(i, p) ==
    /\ work[i][p] = "running"
    /\ IF p = "B"
       THEN /\ deviceWrites' = TRUE
            /\ UNCHANGED remoteWrites
       ELSE /\ remoteWrites' = TRUE
            /\ UNCHANGED deviceWrites
    /\ UNCHANGED <<isSyncing, lastSyncTime, now, holder, pc, res, overall, work,
                   attempted, entry, tpc, tres, tentry, fetch, storedUser,
                   callLogPerm, contactsPerm, quota, storeVars, passVars>>

\* The work wins the race: the wrapper returns the work's result.
PassWorkDone(i, p) ==
    /\ work[i][p] = "running"
    /\ pc[i] \in {"A_wait", "B_wait", "C_wait"}
    /\ PassOf(pc[i]) = p
    /\ work' = [work EXCEPT ![i][p] = "finished"]
    /\ \E ok \in BOOLEAN : Advance(i, p, ok)
    /\ UNCHANGED <<lastSyncTime, now, entry, remoteWrites, deviceWrites, tpc,
                   tres, tentry, fetch, storedUser, callLogPerm, contactsPerm, quota, storeVars, passVars>>

\* Variant: syncContactsToDevice awaits its work without a timer.
PassTimeout_NoTimerForB(i) ==
    /\ pc[i] \in {"A_wait", "C_wait"}
    /\ Advance(i, PassOf(pc[i]), FALSE)
    /\ UNCHANGED <<lastSyncTime, now, work, entry, remoteWrites, deviceWrites,
                   tpc, tres, tentry, fetch, storedUser, callLogPerm, contactsPerm, quota, storeVars, passVars>>

\* The wrapper's timer wins the race: the catch block returns a failure, the
\* work is not cancelled.
PassTimeout(i) ==
    /\ pc[i] \in {"A_wait", "B_wait", "C_wait"}
    /\ Advance(i, PassOf(pc[i]), FALSE)
    /\ UNCHANGED <<lastSyncTime, now, work, entry, remoteWrites, deviceWrites,
                   tpc, tres, tentry, fetch, storedUser, callLogPerm, contactsPerm, quota, storeVars, passVars>>

\* Work that lost its race finishes; its result is discarded.
StaleWorkDone(i, p) ==
    /\ work[i][p] = "running"
    /\ ~(pc[i] \in {"A_wait", "B_wait", "C_wait"} /\ PassOf(pc[i]) = p)
    /\ work' = [work EXCEPT ![i][p] = "finished"]
    /\ UNCHANGED <<isSyncing, lastSyncTime, now, holder, pc, res, overall,
                   attempted, entry, remoteWrites, deviceWrites, tpc, tres,
                   tentry, fetch, storedUser, callLogPerm, contactsPerm, quota, storeVars, passVars>>

\* ------------------------------------------------------- scheduled tasks
\* The finally block of a task together with its return value.
TaskReturn(t, r) ==
    /\ tpc' = [tpc EXCEPT ![t] = "done"]
    /\ tres' = [tres EXCEPT ![t] = r]
    /\ isSyncing' = FALSE
    /\ holder' = "none"

\* Variant: the device task has no cooldown check.
DeviceSyncTaskEnter_NoCooldown ==
    LET t == DEVICE_SYNC_TASK IN
    /\ tpc[t] = "idle"
    /\ MayInvoke
    /\ IF isSyncing
       THEN /\ tpc' = [tpc EXCEPT ![t] = "done"]
            /\ tres' = [tres EXCEPT ![t] = "NoData"]
            /\ tentry' = [tentry EXCEPT ![t] = "busy"]
            /\ UNCHANGED <<isSyncing, lastSyncTime, holder>>
       ELSE /\ isSyncing' = TRUE
            /\ lastSyncTime' = now
            /\ holder' = t
            /\ tpc' = [tpc EXCEPT ![t] = "getUser"]
            /\ tentry' = [tentry EXCEPT ![t] = "acquired"]
            /\ UNCHANGED tres
    /\ UNCHANGED <<now, pc, res, overall, work, attempted, entry, remoteWrites,
                   deviceWrites, fetch, storedUser, callLogPerm, contactsPerm, quota, storeVars, passVars>>

\* DEVICE_SYNC_TASK, lines 84-104.
DeviceSyncTaskEnter ==
    LET t == DEVICE_SYNC_TASK IN
    /\ tpc[t] = "idle"
    /\ MayInvoke
    /\ IF now - lastSyncTime < SYNC_COOLDOWN
       THEN /\ tpc' = [tpc EXCEPT ![t] = "done"]
            /\ tres' = [tres EXCEPT ![t] = "NoData"]
            /\ tentry' = [tentry EXCEPT ![t] = "cooldown"]
            /\ UNCHANGED <<isSyncing, lastSyncTime, holder>>
       ELSE IF isSyncing
       THEN /\ tpc' = [tpc EXCEPT ![t] = "done"]
            /\ tres' = [tres EXCEPT ![t] = "NoData"]
            /\ tentry' = [tentry EXCEPT ![t] = "busy"]
            /\ UNCHANGED <<isSyncing, lastSyncTime, holder>>
       ELSE /\ isSyncing' = TRUE
            /\ lastSyncTime' = now
            /\ holder' = t
            /\ tpc' = [tpc EXCEPT ![t] = "getUser"]
            /\ tentry' = [tentry EXCEPT ![t] = "acquired"]
            /\ UNCHANGED tres
    /\ UNCHANGED <<now, pc, res, overall, work, attempted, entry, remoteWrites,
                   deviceWrites, fetch, storedUser, callLogPerm, contactsPerm, quota, storeVars, passVars>>

\* Variant: the no-user return does not pass through the finally block.
DeviceSyncTaskUser_KeepsFlag ==
    LET t == DEVICE_SYNC_TASK IN
    /\ tpc[t] = "getUser"
    /\ IF storedUser = "none"
       THEN /\ tpc' = [tpc EXCEPT ![t] = "done"]
            /\ tres' = [tres EXCEPT ![t] = "NoData"]
            /\ UNCHANGED <<isSyncing, holder, lastSyncTime, pc, res, overall,
                           attempted>>
       ELSE /\ SyncAllEnter("d")
            /\ tpc' = [tpc EXCEPT ![t] = "awaitSync"]
            /\ UNCHANGED tres
    /\ UNCHANGED <<now, work, entry, remoteWrites, deviceWrites, tentry, fetch,
                   storedUser, callLogPerm, contactsPerm, quota, storeVars, passVars>>

\* AsyncStorage answers: no user id, or the call of syncAllDeviceData(userId).
DeviceSyncTaskUser ==
    LET t == DEVICE_SYNC_TASK IN
    /\ tpc[t] = "getUser"
    /\ IF storedUser = "none"
       THEN /\ TaskReturn(t, "NoData")
            /\ UNCHANGED <<lastSyncTime, pc, res, overall, attempted>>
       ELSE /\ SyncAllEnter("d")
            /\ tpc' = [tpc EXCEPT ![t] = "awaitSync"]
            /\ UNCHANGED tres
    /\ UNCHANGED <<now, work, entry, remoteWrites, deviceWrites, tentry, fetch,
                   storedUser, callLogPerm, contactsPerm, quota, storeVars, passVars>>

\* Variant: the rejection of the user id read's timer is not caught.
DeviceSyncTaskUserTimeout_Uncaught ==
    LET t == DEVICE_SYNC_TASK IN
    /\ tpc[t] = "getUser"
    /\ TaskReturn(t, "rejected")
    /\ UNCHANGED <<lastSyncTime, now, pc, res, overall, work, attempted, entry,
                   remoteWrites, deviceWrites, tentry, fetch, storedUser,
                   callLogPerm, contactsPerm, quota, storeVars, passVars>>

\* The 10 s timer of the user id read fires first.
DeviceSyncTaskUserTimeout ==
    LET t == DEVICE_SYNC_TASK IN
    /\ tpc[t] = "getUser"
    /\ TaskReturn(t, "Failed")
    /\ UNCHANGED <<lastSyncTime, now, pc, res, overall, work, attempted, entry,
                   remoteWrites, deviceWrites, tentry, fetch, storedUser,
                   callLogPerm, contactsPerm, quota, storeVars, passVars>>

\* Promise.race([syncPromise, syncTimeoutPromise]) settles: with the result of
\* syncAllDeviceData if it has returned, else by the 45 s timer.
DeviceSyncTaskSettle ==
    LET t == DEVICE_SYNC_TASK IN
    /\ tpc[t] = "awaitSync"
    /\ IF pc["d"] = "done"
       THEN TaskReturn(t, IF res["d"] \in {"success", "skipped"}
                          THEN "NewData" ELSE "Failed")
       ELSE TaskReturn(t, "Failed")
    /\ UNCHANGED <<lastSyncTime, now, pc, res, overall, work, attempted, entry,
                   remoteWrites, deviceWrites, tentry, fetch, storedUser,
                   callLogPerm, contactsPerm, quota, storeVars, passVars>>

\* BACKGROUND_SYNC_TASK, lines 32-63.
BackgroundSyncTaskEnter ==
    LET t == BACKGROUND_SYNC_TASK IN
    /\ tpc[t] = "idle"
    /\ MayInvoke
    /\ IF now - lastSyncTime < SYNC_COOLDOWN
       THEN /\ tpc' = [tpc EXCEPT ![t] = "done"]
            /\ tres' = [tres EXCEPT ![t] = "NoData"]
            /\ tentry' = [tentry EXCEPT ![t] = "cooldown"]
            /\ UNCHANGED <<isSyncing, lastSyncTime, holder, fetch>>
       ELSE IF isSyncing
       THEN /\ tpc' = [tpc EXCEPT ![t] = "done"]
            /\ tres' = [tres EXCEPT ![t] = "NoData"]
            /\ tentry' = [tentry EXCEPT ![t] = "busy"]
            /\ UNCHANGED <<isSyncing, lastSyncTime, holder, fetch>>
       ELSE /\ isSyncing' = TRUE
            /\ lastSyncTime' = now
            /\ holder' = t
            /\ tpc' = [tpc EXCEPT ![t] = "fetching"]
            /\ tentry' = [tentry EXCEPT ![t] = "acquired"]
            /\ fetch' = "running"
            /\ UNCHANGED tres
    /\ UNCHANGED <<now, pc, res, overall, work, attempted, entry, remoteWrites,
                   deviceWrites, storedUser, callLogPerm, contactsPerm, quota, storeVars, passVars>>

\* fetchContacts and fetchCalls both resolve before the 30 s timer.
BackgroundFetchDone ==
    LET t == BACKGROUND_SYNC_TASK IN
    /\ tpc[t] = "fetching"
    /\ fetch = "running"
    /\ fetch' = "finished"
    /\ TaskReturn(t, "NewData")
    /\ UNCHANGED <<lastSyncTime, now, pc, res, overall, work, attempted, entry,
                   remoteWrites, deviceWrites, tentry, storedUser, callLogPerm,
                   contactsPerm, quota, storeVars, passVars>>

\* The 30 s timer fires first; the fetch is not cancelled.
BackgroundFetchTimeout ==
    LET t == BACKGROUND_SYNC_TASK IN
    /\ tpc[t] = "fetching"
    /\ TaskReturn(t, "Failed")
    /\ UNCHANGED <<lastSyncTime, now, pc, res, overall, work, attempted, entry,
                   remoteWrites, deviceWrites, tentry, fetch, storedUser,
                   callLogPerm, contactsPerm, quota, storeVars, passVars>>

\* The fetch that lost its race finishes.
StaleFetchDone ==
    /\ fetch = "running"
    /\ tpc[BACKGROUND_SYNC_TASK] = "done"
    /\ fetch' = "finished"
    /\ UNCHANGED <<isSyncing, lastSyncTime, now, holder, pc, res, overall, work,
                   attempted, entry, remoteWrites, deviceWrites, tpc, tres,
                   tentry, storedUser, callLogPerm, contactsPerm, quota, storeVars, passVars>>

\* Time passes.
Tick ==
    /\ now < StartTime + MaxTicks * TickMs
    /\ now' = now + TickMs
    /\ UNCHANGED <<isSyncing, lastSyncTime, holder, pc, res, overall, work,
                   attempted, entry, remoteWrites, deviceWrites, tpc, tres,
                   tentry, fetch, storedUser, callLogPerm, contactsPerm, quota, storeVars, passVars>>

Next ==
    \/ \E i \in Manual : ManualSync(i)
    \/ \E i \in Callers : PermAnswer(i)
    \/ \E i \in Callers : PermTimeout(i)
    \/ \E i \in Callers : ImportDone(i)
    \/ \E i \in Callers, p \in Passes : WorkWrite(i, p)
    \/ \E i \in Callers, p \in Passes : PassWorkDone(i, p)
    \/ \E i \in Callers : PassTimeout(i)
    \/ \E i \in Callers, p \in Passes : StaleWorkDone(i, p)
    \/ DeviceSyncTaskEnter
    \/ DeviceSyncTaskUser
    \/ DeviceSyncTaskUserTimeout
    \/ DeviceSyncTaskSettle
    \/ BackgroundSyncTaskEnter
    \/ BackgroundFetchDone
    \/ BackgroundFetchTimeout
    \/ StaleFetchDone
    \/ Tick

Spec == Init /\ [][Next]_vars

\* The event loop runs a timer callback that is due or a continuation whose
\* promise has settled; nothing is assumed of the OS, the device reads or the
\* remote store.
Fairness ==
    /\ WF_vars(\E i \in Callers : PermTimeout(i) \/ ImportDone(i) \/ PassTimeout(i))
    /\ WF_vars(DeviceSyncTaskUserTimeout \/ DeviceSyncTaskSettle \/ BackgroundFetchTimeout)

LiveInit == SyncInit(MaxLiveInvocations) /\ StoreFrozen /\ PassFrozen

LiveSpec == LiveInit /\ [][Next]_vars /\ Fairness

\* ------------------------------------------------ ContactService operations
\* The orchestrator as the store specification leaves it.
SyncFrozen ==
    /\ SyncInit(0)
    /\ storedUser = "none"
    /\ ~callLogPerm
    /\ ~contactsPerm

RowsWithNumber(n) == {r \in contacts : r.phone_number = n}
RowsWithId(k) == {r \in contacts : r.id = k}

\* The contact a call names is present and owned by another user.
OwnedByAnother(contactId, userId) ==
    \E r \in RowsWithId(contactId) : r.created_by_user_id # userId

\* The contacts table's unique constraint on phone_number: would a row with
\* this number, written under this id, collide with another row.
uniquePhoneNumberViolated(n, k) == \E r \in contacts : r.phone_number = n /\ r.id # k

\* Indexes of the device entries Contacts.getContactsAsync returns for a number.
DeviceMatches(n) == {k \in 1..Len(device) : device[k].number = n}
FirstMatch(n) == CHOOSE k \in DeviceMatches(n) : \A j \in DeviceMatches(n) : k <= j
RemoveAt(s, k) == SubSeq(s, 1, k - 1) \o SubSeq(s, k + 1, Len(s))

\* deviceContact.name || 'Unknown'
NameOrUnknown(name) ==
    IF name = <<>> THEN <<"U", "n", "k", "n", "o", "w", "n">> ELSE name

\* Variant: the loop counts a contact as added whatever createContact returns.
Finish_AddedOnAnyResult(rec, r) ==
    IF rec.parent = "passA"
    THEN [rec EXCEPT !.kind = "passA", !.at = "a_item", !.parent = "none",
                     !.name = <<>>, !.phone = <<>>, !.norm = <<>>, !.id = 0,
                     !.idx = rec.idx + 1,
                     !.added = IF rec.kind = "create"
                               THEN rec.added + 1 ELSE rec.added,
                     !.updated = IF rec.kind = "update"
                                 THEN rec.updated + 1 ELSE rec.updated,
                     !.errors = IF rec.kind = "create" /\ r # "ok"
                                THEN rec.errors + 1 ELSE rec.errors]
    ELSE [Idle EXCEPT !.result = r, !.added = rec.added,
                      !.updated = rec.updated, !.errors = rec.errors,
                      !.ranFor = IF rec.kind = "passA" THEN rec.user
                                 ELSE "none"]

\* The record of a client whose operation returns r: a top-level operation
\* leaves its result; an operation called by syncDeviceContacts resumes the
\* loop at the next device contact with the counters updated. History: a
\* finished syncDeviceContacts run leaves the user it ran for in ranFor.
Finish(rec, r) ==
    IF rec.parent = "passA"
    THEN [rec EXCEPT !.kind = "passA", !.at = "a_item", !.parent = "none",
                     !.name = <<>>, !.phone = <<>>, !.norm = <<>>, !.id = 0,
                     !.idx = rec.idx + 1,
                     !.added = IF rec.kind = "create" /\ r = "ok"
                               THEN rec.added + 1 ELSE rec.added,
                     !.updated = IF rec.kind = "update"
                                 THEN rec.updated + 1 ELSE rec.updated,
                     !.errors = IF rec.kind = "create" /\ r # "ok"
                                THEN rec.errors + 1 ELSE rec.errors]
    ELSE [Idle EXCEPT !.result = r, !.added = rec.added,
                      !.updated = rec.updated, !.errors = rec.errors,
                      !.ranFor = IF rec.kind = "passA" THEN rec.user
                                 ELSE "none"]

\* createContact up to its first await: normalize, reject an invalid number.
createContactEnter(rec, name, phoneNumber, userId) ==
    LET normalizedPhone == normalizeIranianPhoneNumber(Trim(phoneNumber))
        r == [rec EXCEPT !.kind = "create", !.user = userId, !.name = name,
                         !.phone = phoneNumber]
    IN  IF ~normalizedPhone.isValid
        THEN Finish(r, "invalid")
        ELSE [r EXCEPT !.at = "c_query", !.norm = normalizedPhone.normalized]

\* updateContact up to its first await.
updateContactEnter(rec, contactId, name, phoneNumber, userId) ==
    [rec EXCEPT !.kind = "update", !.at = "u_owner", !.user = userId,
                !.id = contactId, !.name = name, !.phone = phoneNumber]

MayStart(p) == proc[p].at = "idle" /\ opsStarted < opsQuota

CreateContactCall(p) ==
    /\ MayStart(p)
    /\ \E name \in Names, phoneNumber \in RawNumbers, userId \in Users :
          proc' = [proc EXCEPT ![p] = createContactEnter(Idle, name, phoneNumber, userId)]
    /\ opsStarted' = opsStarted + 1
    /\ UNCHANGED <<contacts, nextId, device, syncVars, opsQuota, passVars>>

\* The record of a client whose operation returns the error that names the
\* contact holding the number.
FinishConflict(rec, existingContact) ==
    IF rec.parent = "passA"
    THEN Finish(rec, "conflict")
    ELSE [Finish(rec, "conflict") EXCEPT !.errorName = existingContact.name]

\* Variant: a contact found under the number is returned whoever owns it.
CreateQuery_AnyOwner(p) ==
    /\ proc[p].at = "c_query"
    /\ LET existingContacts == RowsWithNumber(proc[p].norm)
       IN  IF existingContacts # {}
           THEN proc' = [proc EXCEPT ![p] = Finish(proc[p], "ok")]
           ELSE proc' = [proc EXCEPT ![p].at = "c_insert"]
    /\ UNCHANGED <<contacts, nextId, device, opsStarted, syncVars, opsQuota, passVars>>

\* The select of rows with the normalized number, and the branch on it.
CreateQuery(p) ==
    /\ proc[p].at = "c_query"
    /\ LET existingContacts == RowsWithNumber(proc[p].norm)
       IN  IF existingContacts # {}
           THEN \E existingContact \in existingContacts :
                   proc' = [proc EXCEPT ![p] =
                       IF existingContact.created_by_user_id # proc[p].user
                       THEN FinishConflict(proc[p], existingContact)
                       ELSE Finish(proc[p], "ok")]
           ELSE proc' = [proc EXCEPT ![p].at = "c_insert"]
    /\ UNCHANGED <<contacts, nextId, device, opsStarted, syncVars, opsQuota, passVars>>

\* Variant: the row is inserted with the number as typed.
CreateInsert_RawNumber(p) ==
    /\ proc[p].at = "c_insert"
    /\ IF uniquePhoneNumberViolated(Trim(proc[p].phone), 0)
       THEN /\ proc' = [proc EXCEPT ![p] = Finish(proc[p], "db")]
            /\ UNCHANGED <<contacts, nextId>>
       ELSE /\ contacts' = contacts \cup
                   {[id |-> nextId, name |-> Trim(proc[p].name),
                     phone_number |-> Trim(proc[p].phone),
                     created_by_user_id |-> proc[p].user]}
            /\ nextId' = nextId + 1
            /\ proc' = [proc EXCEPT ![p].at = "c_device", ![p].id = nextId]
    /\ UNCHANGED <<device, opsStarted, syncVars, opsQuota, passVars>>

\* logCall's contact?.id || null: the contact_id of a call linked to no contact.
Null == 0

\* Variant: the insert also links the calls logged for the number earlier.
CreateInsert_LinksCalls(p) ==
    /\ proc[p].at = "c_insert"
    /\ IF uniquePhoneNumberViolated(proc[p].norm, 0)
       THEN /\ proc' = [proc EXCEPT ![p] = Finish(proc[p], "db")]
            /\ UNCHANGED <<contacts, nextId, calls>>
       ELSE /\ contacts' = contacts \cup
                   {[id |-> nextId, name |-> Trim(proc[p].name),
                     phone_number |-> proc[p].norm,
                     created_by_user_id |-> proc[p].user]}
            /\ nextId' = nextId + 1
            /\ proc' = [proc EXCEPT ![p].at = "c_device", ![p].id = nextId]
            /\ calls' = [j \in 1..Len(calls) |->
                           IF /\ calls[j].phone_number = proc[p].norm
                              /\ calls[j].contact_id = Null
                           THEN [calls[j] EXCEPT !.contact_id = nextId]
                           ELSE calls[j]]
    /\ UNCHANGED <<device, opsStarted, syncVars, opsQuota, mirrorVars,
                   callLog, crun, cruns, runQuota, gateVars,
                   normVars, appVars>>

\* The insert of the new row.
CreateInsert(p) ==
    /\ proc[p].at = "c_insert"
    /\ IF uniquePhoneNumberViolated(proc[p].norm, 0)
       THEN /\ proc' = [proc EXCEPT ![p] = Finish(proc[p], "db")]
            /\ UNCHANGED <<contacts, nextId>>
       ELSE /\ contacts' = contacts \cup
                   {[id |-> nextId, name |-> Trim(proc[p].name),
                     phone_number |-> proc[p].norm,
                     created_by_user_id |-> proc[p].user]}
            /\ nextId' = nextId + 1
            /\ proc' = [proc EXCEPT ![p].at = "c_device", ![p].id = nextId]
    /\ UNCHANGED <<device, opsStarted, syncVars, opsQuota, passVars>>

\* Variant: a failed device write undoes the insert and fails the operation.
CreateDevice_RollsBack(p) ==
    /\ proc[p].at = "c_device"
    /\ \E ok \in BOOLEAN :
          /\ ok => Len(device) < MaxDevice
          /\ device' = IF ok
                       THEN Append(device, [name |-> Trim(proc[p].name),
                                            number |-> proc[p].norm])
                       ELSE device
          /\ contacts' = IF ok THEN contacts
                         ELSE {r \in contacts : r.id # proc[p].id}
          /\ proc' = [proc EXCEPT ![p] =
                         Finish(proc[p], IF ok THEN "ok" ELSE "db")]
    /\ UNCHANGED <<nextId, opsStarted, syncVars, opsQuota, passVars>>

\* Contacts.addContactAsync; its failure is caught and logged.
CreateDevice(p) ==
    /\ proc[p].at = "c_device"
    /\ \E ok \in BOOLEAN :
          /\ ok => Len(device) < MaxDevice
          /\ device' = IF ok
                       THEN Append(device, [name |-> Trim(proc[p].name),
                                            number |-> proc[p].norm])
                       ELSE device
    /\ proc' = [proc EXCEPT ![p] = Finish(proc[p], "ok")]
    /\ UNCHANGED <<contacts, nextId, opsStarted, syncVars, opsQuota, passVars>>

UpdateContactCall(p) ==
    /\ MayStart(p)
    /\ \E contactId \in 1..(nextId - 1), name \in Names,
          phoneNumber \in RawNumbers, userId \in Users :
          proc' = [proc EXCEPT ![p] =
                      updateContactEnter(Idle, contactId, name, phoneNumber, userId)]
    /\ opsStarted' = opsStarted + 1
    /\ UNCHANGED <<contacts, nextId, device, syncVars, opsQuota, passVars>>

\* Variant: the ownership select only checks that the contact exists.
UpdateOwner_AnyUser(p) ==
    /\ proc[p].at = "u_owner"
    /\ LET contactToCheck == RowsWithId(proc[p].id)
           normalizedPhone == normalizeIranianPhoneNumber(Trim(proc[p].phone))
       IN  proc' = [proc EXCEPT ![p] =
               IF contactToCheck = {}
               THEN Finish(proc[p], "notOwner")
               ELSE IF ~normalizedPhone.isValid
               THEN Finish(proc[p], "invalid")
               ELSE [proc[p] EXCEPT !.at = "u_dups",
                                    !.norm = normalizedPhone.normalized]]
    /\ UNCHANGED <<contacts, nextId, device, opsStarted, syncVars, opsQuota, passVars>>

\* The ownership select, then the normalization of the new number.
UpdateOwner(p) ==
    /\ proc[p].at = "u_owner"
    /\ LET contactToCheck == RowsWithId(proc[p].id)
           normalizedPhone == normalizeIranianPhoneNumber(Trim(proc[p].phone))
       IN  proc' = [proc EXCEPT ![p] =
               IF \A r \in contactToCheck : r.created_by_user_id # proc[p].user
               THEN Finish(proc[p], "notOwner")
               ELSE IF ~normalizedPhone.isValid
               THEN Finish(proc[p], "invalid")
               ELSE [proc[p] EXCEPT !.at = "u_dups",
                                    !.norm = normalizedPhone.normalized]]
    /\ UNCHANGED <<contacts, nextId, device, opsStarted, syncVars, opsQuota, passVars>>

\* The select of other rows with the normalized number.
UpdateDups(p) ==
    /\ proc[p].at = "u_dups"
    /\ LET existingContacts ==
               {r \in RowsWithNumber(proc[p].norm) : r.id # proc[p].id}
       IN  IF existingContacts # {}
           THEN \E existingContact \in existingContacts :
                   proc' = [proc EXCEPT ![p] =
                       IF existingContact.created_by_user_id # proc[p].user
                       THEN FinishConflict(proc[p], existingContact)
                       ELSE [proc[p] EXCEPT !.at = "u_update"]]
           ELSE proc' = [proc EXCEPT ![p].at = "u_update"]
    /\ UNCHANGED <<contacts, nextId, device, opsStarted, syncVars, opsQuota, passVars>>

\* The update of the row; .single() fails when the row is gone.
UpdateWrite(p) ==
    /\ proc[p].at = "u_update"
    /\ IF RowsWithId(proc[p].id) = {}
          \/ uniquePhoneNumberViolated(proc[p].norm, proc[p].id)
       THEN /\ proc' = [proc EXCEPT ![p] = Finish(proc[p], "db")]
            /\ UNCHANGED contacts
       ELSE /\ contacts' =
                   {IF r.id = proc[p].id
                    THEN [r EXCEPT !.name = Trim(proc[p].name),
                                   !.phone_number = proc[p].norm]
                    ELSE r : r \in contacts}
            /\ proc' = [proc EXCEPT ![p].at = "u_device"]
    /\ UNCHANGED <<nextId, device, opsStarted, syncVars, opsQuota, passVars>>

\* The device entry found by the new number gets the new name and number;
\* a failure of the device calls is caught and logged.
UpdateDevice(p) ==
    /\ proc[p].at = "u_device"
    /\ \E ok \in BOOLEAN :
          device' = IF ok /\ DeviceMatches(proc[p].norm) # {}
                    THEN [device EXCEPT ![FirstMatch(proc[p].norm)] =
                             [name |-> Trim(proc[p].name), number |-> proc[p].norm]]
                    ELSE device
    /\ proc' = [proc EXCEPT ![p] = Finish(proc[p], "ok")]
    /\ UNCHANGED <<contacts, nextId, opsStarted, syncVars, opsQuota, passVars>>

DeleteContactCall(p) ==
    /\ MayStart(p)
    /\ \E contactId \in 1..(nextId - 1), userId \in Users :
          proc' = [proc EXCEPT ![p] =
                      [Idle EXCEPT !.kind = "delete", !.at = "d_get",
                                   !.id = contactId, !.user = userId]]
    /\ opsStarted' = opsStarted + 1
    /\ UNCHANGED <<contacts, nextId, device, syncVars, opsQuota, passVars>>

\* The select of the row's phone number.
DeleteGet(p) ==
    /\ proc[p].at = "d_get"
    /\ IF RowsWithId(proc[p].id) = {}
       THEN proc' = [proc EXCEPT ![p] = Finish(proc[p], "notFound")]
       ELSE \E contactToDelete \in RowsWithId(proc[p].id) :
               proc' = [proc EXCEPT ![p].at = "d_owner",
                                    ![p].norm = contactToDelete.phone_number]
    /\ UNCHANGED <<contacts, nextId, device, opsStarted, syncVars, opsQuota, passVars>>

\* The ownership select.
DeleteOwner(p) ==
    /\ proc[p].at = "d_owner"
    /\ proc' = [proc EXCEPT ![p] =
           IF \A r \in RowsWithId(proc[p].id) : r.created_by_user_id # proc[p].user
           THEN Finish(proc[p], "notOwner")
           ELSE [proc[p] EXCEPT !.at = "d_delete"]]
    /\ UNCHANGED <<contacts, nextId, device, opsStarted, syncVars, opsQuota, passVars>>

\* The delete of the row.
DeleteRow(p) ==
    /\ proc[p].at = "d_delete"
    /\ contacts' = contacts \ RowsWithId(proc[p].id)
    /\ proc' = [proc EXCEPT ![p].at = "d_device"]
    /\ UNCHANGED <<nextId, device, opsStarted, syncVars, opsQuota, passVars>>

\* The first device entry found by the deleted row's number is removed; a
\* failure of the device calls is caught and logged.
DeleteDevice(p) ==
    /\ proc[p].at = "d_device"
    /\ \E ok \in BOOLEAN :
          device' = IF ok /\ DeviceMatches(proc[p].norm) # {}
                    THEN RemoveAt(device, FirstMatch(proc[p].norm))
                    ELSE device
    /\ proc' = [proc EXCEPT ![p] = Finish(proc[p], "ok")]
    /\ UNCHANGED <<contacts, nextId, opsStarted, syncVars, opsQuota, passVars>>

\* AndroidCallLogService.syncContacts: read the address book; nothing to do
\* when it is empty, else ContactService.syncDeviceContacts over the list.
\* History: the run that starts is the next run of the user whose run
\* without errors has just returned, with no other operation started or in
\* progress in between.
Rerun(p, userId) ==
    /\ proc[p].ranFor = userId
    /\ proc[p].result = "ok" /\ proc[p].errors = 0
    /\ opsStarted = 1

PassACall(p) ==
    /\ MayStart(p)
    /\ \E userId \in Users :
          proc' = [proc EXCEPT ![p] =
              IF device = <<>>
              THEN [Idle EXCEPT !.result = "ok"]
              ELSE [Idle EXCEPT !.kind = "passA", !.at = "a_item",
                                !.user = userId, !.list = device, !.idx = 1,
                                !.rerun = Rerun(p, userId)]]
    /\ opsStarted' = opsStarted + 1
    /\ UNCHANGED <<contacts, nextId, device, syncVars, opsQuota, passVars>>

\* Variant: a contact found is updated when the name differs, whoever owns it.
PassAItem_NoOwnerCheck(p) ==
    /\ proc[p].at = "a_item"
    /\ LET rec == proc[p]
           skip == [rec EXCEPT !.idx = rec.idx + 1]
       IN  IF rec.idx > Len(rec.list)
           THEN proc' = [proc EXCEPT ![p] = Finish(rec, "ok")]
           ELSE
           LET deviceContact == rec.list[rec.idx]
               phoneNumber == deviceContact.number
               normalizedPhone == normalizeIranianPhoneNumber(phoneNumber)
               found == RowsWithNumber(normalizedPhone.normalized)
           IN  IF phoneNumber = <<>> \/ ~normalizedPhone.isValid
               THEN proc' = [proc EXCEPT ![p] = skip]
               ELSE IF Cardinality(found) = 1
               THEN \E existingContact \in found :
                       proc' = [proc EXCEPT ![p] =
                           IF existingContact.name # deviceContact.name
                           THEN updateContactEnter(
                                    [rec EXCEPT !.parent = "passA"],
                                    existingContact.id, deviceContact.name,
                                    phoneNumber, rec.user)
                           ELSE skip]
               ELSE proc' = [proc EXCEPT ![p] =
                       createContactEnter(
                           [rec EXCEPT !.parent = "passA"],
                           NameOrUnknown(deviceContact.name),
                           phoneNumber, rec.user)]
    /\ UNCHANGED <<contacts, nextId, device, opsStarted, syncVars, opsQuota, passVars>>

\* Variant: an entry without a usable number is reported as an error.
PassAItem_ReportInvalid(p) ==
    /\ proc[p].at = "a_item"
    /\ LET rec == proc[p]
           skip == [rec EXCEPT !.idx = rec.idx + 1]
       IN  IF rec.idx > Len(rec.list)
           THEN proc' = [proc EXCEPT ![p] = Finish(rec, "ok")]
           ELSE
           LET deviceContact == rec.list[rec.idx]
               phoneNumber == deviceContact.number
               normalizedPhone == normalizeIranianPhoneNumber(phoneNumber)
               found == RowsWithNumber(normalizedPhone.normalized)
           IN  IF phoneNumber = <<>> \/ ~normalizedPhone.isValid
               THEN proc' = [proc EXCEPT ![p] =
                        [skip EXCEPT !.errors = rec.errors + 1]]
               ELSE IF Cardinality(found) = 1
               THEN \E existingContact \in found :
                       proc' = [proc EXCEPT ![p] =
                           IF /\ existingContact.created_by_user_id = rec.user
                              /\ existingContact.name # deviceContact.name
                           THEN updateContactEnter(
                                    [rec EXCEPT !.parent = "passA"],
                                    existingContact.id, deviceContact.name,
                                    phoneNumber, rec.user)
                           ELSE skip]
               ELSE proc' = [proc EXCEPT ![p] =
                       createContactEnter(
                           [rec EXCEPT !.parent = "passA"],
                           NameOrUnknown(deviceContact.name),
                           phoneNumber, rec.user)]
    /\ UNCHANGED <<contacts, nextId, device, opsStarted, syncVars, opsQuota, passVars>>

\* One iteration of the syncDeviceContacts loop up to the call it makes, or
\* the return after the last device contact.
PassAItem(p) ==
    /\ proc[p].at = "a_item"
    /\ LET rec == proc[p]
           skip == [rec EXCEPT !.idx = rec.idx + 1]
       IN  IF rec.idx > Len(rec.list)
           THEN proc' = [proc EXCEPT ![p] = Finish(rec, "ok")]
           ELSE
           LET deviceContact == rec.list[rec.idx]
               phoneNumber == deviceContact.number
               normalizedPhone == normalizeIranianPhoneNumber(phoneNumber)
               found == RowsWithNumber(normalizedPhone.normalized)
           IN  IF phoneNumber = <<>> \/ ~normalizedPhone.isValid
               THEN proc' = [proc EXCEPT ![p] = skip]
               ELSE IF Cardinality(found) = 1
               THEN \E existingContact \in found :
                       proc' = [proc EXCEPT ![p] =
                           IF /\ existingContact.created_by_user_id = rec.user
                              /\ existingContact.name # deviceContact.name
                           THEN updateContactEnter(
                                    [rec EXCEPT !.parent = "passA"],
                                    existingContact.id, deviceContact.name,
                                    phoneNumber, rec.user)
                           ELSE skip]
               ELSE proc' = [proc EXCEPT ![p] =
                       createContactEnter(
                           [rec EXCEPT !.parent = "passA"],
                           NameOrUnknown(deviceContact.name),
                           phoneNumber, rec.user)]
    /\ UNCHANGED <<contacts, nextId, device, opsStarted, syncVars, opsQuota, passVars>>

StoreNext ==
    \/ \E p \in Procs : CreateContactCall(p)
    \/ \E p \in Procs : CreateQuery(p)
    \/ \E p \in Procs : CreateInsert(p)
    \/ \E p \in Procs : CreateDevice(p)
    \/ \E p \in Procs : UpdateContactCall(p)
    \/ \E p \in Procs : UpdateOwner(p)
    \/ \E p \in Procs : UpdateDups(p)
    \/ \E p \in Procs : UpdateWrite(p)
    \/ \E p \in Procs : UpdateDevice(p)
    \/ \E p \in Procs : DeleteContactCall(p)
    \/ \E p \in Procs : DeleteGet(p)
    \/ \E p \in Procs : DeleteOwner(p)
    \/ \E p \in Procs : DeleteRow(p)
    \/ \E p \in Procs : DeleteDevice(p)
    \/ \E p \in Procs : PassACall(p)
    \/ \E p \in Procs : PassAItem(p)

StoreSpecInit == SyncFrozen /\ StoreInit /\ PassFrozen

StoreSpec == StoreSpecInit /\ [][StoreNext]_vars

\* Address books for repeated Pass A runs: one entry whose name and number
\* are not in stored form, and two entries of one canonical number.
PassADevices ==
    { <<[name |-> NameSara, number |-> MobileOther]>>,
      <<[name |-> NameAli, number |-> MobileDomestic],
        [name |-> NameSara, number |-> MobileIntl]>> }

PassASpecInit ==
    /\ SyncFrozen
    /\ contacts \in InitialStores
    /\ nextId = Cardinality(contacts) + 1
    /\ device \in PassADevices
    /\ proc = [p \in Procs |-> Idle]
    /\ opsStarted = 0
    /\ opsQuota = MaxOps
    /\ PassFrozen

PassASpec == PassASpecInit /\ [][StoreNext]_vars

\* ------------------------------------ Pass B: syncServerContactsToDevice
\* bounds of the pass specifications
MaxRuns == 2
MaxMirrorOps == 1

\* phoneNumberUtils.arePhoneNumbersEqual
arePhoneNumbersEqual(phone1, phone2) ==
    LET normalized1 == normalizeIranianPhoneNumber(phone1)
        normalized2 == normalizeIranianPhoneNumber(phone2)
    IN  /\ normalized1.isValid
        /\ normalized2.isValid
        /\ normalized1.normalized = normalized2.normalized

\* .order('name'): the characters names are made of, in code point order.
CharOrder == <<" ", "A", "S", "U", "a", "i", "k", "l", "n", "o", "r", "w">>
CharRank(c) == CHOOSE k \in 1..Len(CharOrder) : CharOrder[k] = c
RECURSIVE NameBefore(_, _)
NameBefore(a, b) ==
    IF b = <<>> THEN FALSE
    ELSE IF a = <<>> THEN TRUE
    ELSE IF Head(a) = Head(b) THEN NameBefore(Tail(a), Tail(b))
    ELSE CharRank(Head(a)) < CharRank(Head(b))

\* ContactService.fetchContacts: the rows ordered by name, rows of one name
\* in any order.
OrderedByName(rows) ==
    {f \in [1..Cardinality(rows) -> rows] :
        /\ \A i, j \in 1..Cardinality(rows) : i # j => f[i] # f[j]
        /\ \A i, j \in 1..Cardinality(rows) :
              i < j => ~NameBefore(f[j].name, f[i].name)}

\* deviceContacts.find(...): positions of the address-book contacts one of
\* whose numbers equals the contact's number.
BookMatches(b, n) ==
    {k \in 1..Len(b) :
        \E j \in 1..Len(b[k].phoneNumbers) :
            arePhoneNumbersEqual(b[k].phoneNumbers[j], n)}
FirstIn(S) == CHOOSE k \in S : \A j \in S : k <= j
BookIds(b) == {b[k].id : k \in 1..Len(b)}

\* Tables and address books a Pass B run may meet.
RowSara == [id |-> 2, name |-> Trim(NameSara),
            phone_number |-> CanonicalOf(MobileOther),
            created_by_user_id |-> "U1"]
MirrorStores == { {RowAli}, {RowAli, RowSara} }
InitialBooks ==
    { <<>>,
      <<[id |-> 1, firstName |-> Trim(NameSara),
         phoneNumbers |-> <<MobileDomestic, MobileOther>>]>> }

MirrorInit ==
    /\ book \in InitialBooks
    /\ nextBookId = Len(book) + 1
    /\ brun = BIdle
    /\ bruns = 0
    /\ callLog = <<>>
    /\ calls = <<>>
    /\ crun = CIdle
    /\ cruns = 0
    /\ runQuota = MaxRuns
    /\ GateFrozen

PassBCall ==
    /\ brun.at = "idle"
    /\ bruns < runQuota
    /\ brun' = [BIdle EXCEPT !.at = "b_fetch"]
    /\ bruns' = bruns + 1
    /\ UNCHANGED <<book, nextBookId, callVars, runQuota, gateVars, normVars, appVars,
                   storeVars, syncVars>>

\* const serverContacts = await this.fetchContacts()
PassBFetch ==
    /\ brun.at = "b_fetch"
    /\ \E serverContacts \in OrderedByName(contacts) :
          brun' = [brun EXCEPT !.at = "b_read", !.server = serverContacts]
    /\ UNCHANGED <<book, nextBookId, bruns, callVars, runQuota, gateVars, normVars, appVars,
                   storeVars, syncVars>>

\* Contacts.getContactsAsync: the address book is read once; when the read
\* is refused the pass returns failure.
PassBRead ==
    /\ brun.at = "b_read"
    /\ \E ok \in BOOLEAN :
          brun' = IF ok
                  THEN [brun EXCEPT !.at = "b_item", !.snap = book, !.idx = 1]
                  ELSE [BIdle EXCEPT !.result = "failure", !.server = brun.server]
    /\ UNCHANGED <<book, nextBookId, bruns, callVars, runQuota, gateVars, normVars, appVars,
                   storeVars, syncVars>>

\* The record of a device contact written back with a new first name.
UpdateData(existingDeviceContact, serverContact) ==
    [id |-> existingDeviceContact.id,
     firstName |-> serverContact.name,
     phoneNumbers |->
        [j \in 1..Len(existingDeviceContact.phoneNumbers) |->
            IF existingDeviceContact.phoneNumbers[j] = serverContact.phone_number
            THEN serverContact.phone_number
            ELSE existingDeviceContact.phoneNumbers[j]]]

\* Contacts.updateContactAsync
BookUpdated(b, updateData) ==
    [k \in 1..Len(b) |-> IF b[k].id = updateData.id THEN updateData ELSE b[k]]

\* Variant: a differing contact is written back as a new device contact.
PassBItem_ReplaceOnUpdate ==
    /\ brun.at = "b_item"
    /\ IF brun.idx > Len(brun.server)
       THEN /\ brun' = [BIdle EXCEPT !.result = "ok", !.server = brun.server,
                                     !.added = brun.added,
                                     !.updated = brun.updated,
                                     !.errors = brun.errors]
            /\ UNCHANGED <<book, nextBookId>>
       ELSE
       LET serverContact == brun.server[brun.idx]
           found == BookMatches(brun.snap, serverContact.phone_number)
           next == [brun EXCEPT !.idx = brun.idx + 1]
       IN  IF found # {}
           THEN LET existingDeviceContact == brun.snap[FirstIn(found)]
                IN  IF existingDeviceContact.firstName # serverContact.name
                    THEN /\ book' = Append(
                                SelectSeq(book, LAMBDA c : c.id # existingDeviceContact.id),
                                [UpdateData(existingDeviceContact, serverContact)
                                    EXCEPT !.id = nextBookId])
                         /\ nextBookId' = nextBookId + 1
                         /\ brun' = [next EXCEPT !.updated = brun.updated + 1]
                    ELSE /\ brun' = next
                         /\ UNCHANGED <<book, nextBookId>>
           ELSE /\ book' = Append(book,
                        [id |-> nextBookId, firstName |-> serverContact.name,
                         phoneNumbers |-> <<serverContact.phone_number>>])
                /\ nextBookId' = nextBookId + 1
                /\ brun' = [next EXCEPT !.added = brun.added + 1]
    /\ UNCHANGED <<bruns, callVars, runQuota, gateVars, normVars, appVars,
                   storeVars, syncVars>>

\* One iteration of the loop over the server contacts, or the return after
\* the last one. A device write that throws is counted in errors.
PassBItem ==
    /\ brun.at = "b_item"
    /\ IF brun.idx > Len(brun.server)
       THEN /\ brun' = [BIdle EXCEPT !.result = "ok", !.server = brun.server,
                                     !.added = brun.added,
                                     !.updated = brun.updated,
                                     !.errors = brun.errors]
            /\ UNCHANGED <<book, nextBookId>>
       ELSE
       LET serverContact == brun.server[brun.idx]
           found == BookMatches(brun.snap, serverContact.phone_number)
           next == [brun EXCEPT !.idx = brun.idx + 1]
           failed == /\ brun' = [next EXCEPT !.errors = brun.errors + 1]
                     /\ UNCHANGED <<book, nextBookId>>
       IN  IF found # {}
           THEN LET existingDeviceContact == brun.snap[FirstIn(found)]
                IN  IF existingDeviceContact.firstName # serverContact.name
                    THEN \/ /\ existingDeviceContact.id \in BookIds(book)
                            /\ book' = BookUpdated(book,
                                   UpdateData(existingDeviceContact, serverContact))
                            /\ brun' = [next EXCEPT !.updated = brun.updated + 1]
                            /\ UNCHANGED nextBookId
                         \/ failed
                    ELSE /\ brun' = next
                         /\ UNCHANGED <<book, nextBookId>>
           ELSE \/ /\ book' = Append(book,
                           [id |-> nextBookId, firstName |-> serverContact.name,
                            phoneNumbers |-> <<serverContact.phone_number>>])
                   /\ nextBookId' = nextBookId + 1
                   /\ brun' = [next EXCEPT !.added = brun.added + 1]
                \/ failed
    /\ UNCHANGED <<bruns, callVars, runQuota, gateVars, normVars, appVars,
                   storeVars, syncVars>>

MirrorNext ==
    \/ PassBCall
    \/ PassBFetch
    \/ PassBRead
    \/ PassBItem
    \/ \E p \in Procs : DeleteContactCall(p)
    \/ \E p \in Procs : DeleteGet(p)
    \/ \E p \in Procs : DeleteOwner(p)
    \/ \E p \in Procs : DeleteRow(p)
    \/ \E p \in Procs : DeleteDevice(p)

MirrorSpecInit ==
    /\ SyncFrozen
    /\ contacts \in MirrorStores
    /\ nextId = Cardinality(contacts) + 1
    /\ device = <<>>
    /\ proc = [p \in Procs |-> Idle]
    /\ opsStarted = 0
    /\ opsQuota = MaxMirrorOps
    /\ MirrorInit

MirrorSpec == MirrorSpecInit /\ [][MirrorNext]_vars

\* ------------------------------------------------ Pass C: syncCallLogs
\* bound of the call specification
MaxCallOps == 1

batchSize == 10

\* Date.prototype.toISOString of new Date(timestamp), for the integer
\* millisecond timestamps the call log holds: the instant as a tagged value.
toISOString(timestamp) == <<"ISO", timestamp>>

\* Call logs the device may hold: an answered incoming call from a mobile
\* number and an unanswered outgoing call to a number that does not normalize.
CallAnswered == [phoneNumber |-> MobileDomestic, direction |-> "incoming",
                 timestamp |-> 1000, duration |-> 42]
CallUnanswered == [phoneNumber |-> TooShort, direction |-> "outgoing",
                   timestamp |-> 2000, duration |-> 0]
InitialCallLogs == { <<CallAnswered, CallUnanswered>> }

\* The entries of the batch in progress.
Batch == {k \in 1..Len(crun.log) : crun.base < k /\ k <= crun.base + batchSize}

\* logCall: the id of the single contact with the normalized number.
LookedUp(phoneNumber) ==
    LET normalizedPhone == normalizeIranianPhoneNumber(phoneNumber)
        found == RowsWithNumber(normalizedPhone.normalized)
    IN  IF Cardinality(found) = 1 THEN (CHOOSE r \in found : TRUE).id ELSE Null

\* logCall: the row inserted.
CallRow(callLog_k, userId, contactId) ==
    LET normalizedPhone == normalizeIranianPhoneNumber(callLog_k.phoneNumber)
    IN  [user_id |-> userId,
         contact_id |-> contactId,
         phone_number |-> IF normalizedPhone.normalized # <<>>
                          THEN normalizedPhone.normalized
                          ELSE callLog_k.phoneNumber,
         direction |-> callLog_k.direction,
         start_time |-> toISOString(callLog_k.timestamp),
         duration |-> callLog_k.duration]

\* The record of a run that has returned.
CFinished(rec, log, synced) ==
    [CIdle EXCEPT !.result = "ok", !.log = log, !.synced = synced,
                  !.full = IF log # <<>> THEN rec.full + 1 ELSE rec.full]

\* The signed-in user the runs of the pass log calls for.
CallUsers == {"U1"}

PassCCall ==
    /\ crun.at = "idle"
    /\ cruns < runQuota
    /\ \E userId \in CallUsers :
          crun' = [CIdle EXCEPT !.at = "c_read", !.user = userId,
                                !.full = crun.full]
    /\ cruns' = cruns + 1
    /\ UNCHANGED <<callLog, calls, mirrorVars, runQuota, gateVars, normVars, appVars,
                   storeVars, syncVars>>

\* getCallLogs: the call log, or nothing when the permission is missing or
\* the read times out; with nothing to do the run returns success.
PassCRead ==
    /\ crun.at = "c_read"
    /\ \E ok \in BOOLEAN :
          crun' = IF ok /\ callLog # <<>>
                  THEN [crun EXCEPT !.at = "c_batch", !.log = callLog,
                                    !.step = [k \in 1..Len(callLog) |-> "lookup"],
                                    !.cid = [k \in 1..Len(callLog) |-> Null]]
                  ELSE CFinished(crun, <<>>, 0)
    /\ UNCHANGED <<callLog, calls, cruns, mirrorVars, runQuota, gateVars, normVars, appVars,
                   storeVars, syncVars>>

\* logCall of one entry of the batch: the select of the contact.
LogCallLookup(k) ==
    /\ crun.at = "c_batch"
    /\ k \in Batch
    /\ crun.step[k] = "lookup"
    /\ crun' = [crun EXCEPT !.step[k] = "insert",
                            !.cid[k] = LookedUp(crun.log[k].phoneNumber)]
    /\ UNCHANGED <<callLog, calls, cruns, mirrorVars, runQuota, gateVars, normVars, appVars,
                   storeVars, syncVars>>

\* Variant: the row holds the number as the call log gives it.
LogCallInsert_RawNumber(k) ==
    /\ crun.at = "c_batch"
    /\ k \in Batch
    /\ crun.step[k] = "insert"
    /\ calls' = Append(calls,
           [CallRow(crun.log[k], crun.user, crun.cid[k])
               EXCEPT !.phone_number = crun.log[k].phoneNumber])
    /\ crun' = [crun EXCEPT !.step[k] = "done", !.synced = crun.synced + 1]
    /\ UNCHANGED <<callLog, cruns, mirrorVars, runQuota, gateVars, normVars, appVars,
                   storeVars, syncVars>>

\* Variant: an entry a row was already inserted for is not inserted again.
LogCallInsert_OncePerEntry(k) ==
    /\ crun.at = "c_batch"
    /\ k \in Batch
    /\ crun.step[k] = "insert"
    /\ LET row == CallRow(crun.log[k], crun.user, crun.cid[k])
       IN  IF \E j \in 1..Len(calls) :
                 /\ calls[j].phone_number = row.phone_number
                 /\ calls[j].start_time = row.start_time
           THEN /\ crun' = [crun EXCEPT !.step[k] = "done"]
                /\ UNCHANGED calls
           ELSE /\ calls' = Append(calls, row)
                /\ crun' = [crun EXCEPT !.step[k] = "done",
                                        !.synced = crun.synced + 1]
    /\ UNCHANGED <<callLog, cruns, mirrorVars, runQuota, gateVars, normVars, appVars,
                   storeVars, syncVars>>

\* logCall of one entry of the batch: the insert of the row, counted in
\* synced.
LogCallInsert(k) ==
    /\ crun.at = "c_batch"
    /\ k \in Batch
    /\ crun.step[k] = "insert"
    /\ calls' = Append(calls, CallRow(crun.log[k], crun.user, crun.cid[k]))
    /\ crun' = [crun EXCEPT !.step[k] = "done", !.synced = crun.synced + 1]
    /\ UNCHANGED <<callLog, cruns, mirrorVars, runQuota, gateVars, normVars, appVars,
                   storeVars, syncVars>>

\* Promise.allSettled of the batch: on to the next batch, or the return.
PassCBatchDone ==
    /\ crun.at = "c_batch"
    /\ \A k \in Batch : crun.step[k] = "done"
    /\ crun' = IF crun.base + batchSize < Len(crun.log)
               THEN [crun EXCEPT !.base = crun.base + batchSize]
               ELSE CFinished(crun, crun.log, crun.synced)
    /\ UNCHANGED <<callLog, calls, cruns, mirrorVars, runQuota, gateVars, normVars, appVars,
                   storeVars, syncVars>>

\* The caller of the ContactService operations that run beside Pass C.
CallProcs == {"p1"}

CallNext ==
    \/ PassCCall
    \/ PassCRead
    \/ \E k \in 1..Len(callLog) : LogCallLookup(k)
    \/ \E k \in 1..Len(callLog) : LogCallInsert(k)
    \/ PassCBatchDone
    \/ \E p \in CallProcs : CreateContactCall(p)
    \/ \E p \in CallProcs : CreateQuery(p)
    \/ \E p \in CallProcs : CreateInsert(p)
    \/ \E p \in CallProcs : CreateDevice(p)
    \/ \E p \in CallProcs : UpdateContactCall(p)
    \/ \E p \in CallProcs : UpdateOwner(p)
    \/ \E p \in CallProcs : UpdateDups(p)
    \/ \E p \in CallProcs : UpdateWrite(p)
    \/ \E p \in CallProcs : UpdateDevice(p)
    \/ \E p \in CallProcs : DeleteContactCall(p)
    \/ \E p \in CallProcs : DeleteGet(p)
    \/ \E p \in CallProcs : DeleteOwner(p)
    \/ \E p \in CallProcs : DeleteRow(p)
    \/ \E p \in CallProcs : DeleteDevice(p)
    \/ \E p \in CallProcs : PassACall(p)
    \/ \E p \in CallProcs : PassAItem(p)

CallSpecInit ==
    /\ SyncFrozen
    /\ contacts \in InitialStores
    /\ nextId = Cardinality(contacts) + 1
    /\ device = <<[name |-> NameSara, number |-> MobileDomestic]>>
    /\ proc = [p \in Procs |-> Idle]
    /\ opsStarted = 0
    /\ opsQuota = MaxCallOps
    /\ book = <<>>
    /\ nextBookId = 1
    /\ brun = BIdle
    /\ bruns = 0
    /\ callLog \in InitialCallLogs
    /\ calls = <<>>
    /\ crun = CIdle
    /\ cruns = 0
    /\ runQuota = MaxRuns
    /\ GateFrozen

CallSpec == CallSpecInit /\ [][CallNext]_vars

\* ------------------------------------------- requestPermissions (gateway)
\* Everything but the gateway's own variables.
nonGateVars == <<mirrorVars, callVars, runQuota, normVars, appVars, storeVars,
                 syncVars>>

\* Calls of the gateway and the adapters made so far.
GateCalls == Cardinality({c \in GateCallers : rcall[c].at # "idle"})
             + Cardinality({r \in Readers : chk[r].at # "idle"})
MayCall == GateCalls < gateQuota

\* The request the next new Promise stands for.
NextFlow == 1 + Cardinality({k \in GateCallers : flow[k].state # "none"})

\* The OS grant of a permission.
Granted(m) == IF m = "READ_CALL_LOG" THEN callLogPerm
              ELSE IF m = "READ_CONTACTS" THEN contactsPerm
              ELSE phoneStatePerm

\* Variant: every call starts a request of its own.
RequestPermissions_NoQueue(c) ==
    /\ rcall[c].at = "idle"
    /\ MayCall
    /\ IF ~isAndroid
       THEN /\ rcall' = [rcall EXCEPT ![c] = [RIdle EXCEPT !.at = "done"]]
            /\ UNCHANGED <<isRequestingPermissions, requestPromise, flow>>
       ELSE /\ isRequestingPermissions' = TRUE
            /\ requestPromise' = NextFlow
            /\ flow' = [flow EXCEPT ![NextFlow] =
                           [state |-> "racing", os |-> "sent", result |-> FALSE]]
            /\ rcall' = [rcall EXCEPT ![c] =
                           [RIdle EXCEPT !.at = "waiting", !.on = NextFlow]]
    /\ UNCHANGED <<isAndroid, nativeRequesting, permissionPromise, dialogs,
                   phoneStatePerm, chk, gateQuota, nonGateVars>>

\* requestPermissions up to its return of the promise: not on Android, false;
\* a request in progress, that request's promise; else a new request whose
\* executor calls CallLogModule.requestPermissions and starts the 10 s timer.
RequestPermissions(c) ==
    /\ rcall[c].at = "idle"
    /\ MayCall
    /\ IF ~isAndroid
       THEN /\ rcall' = [rcall EXCEPT ![c] = [RIdle EXCEPT !.at = "done"]]
            /\ UNCHANGED <<isRequestingPermissions, requestPromise, flow>>
       ELSE IF isRequestingPermissions /\ requestPromise # 0
       THEN /\ rcall' = [rcall EXCEPT ![c] =
                           [RIdle EXCEPT !.at = "waiting", !.on = requestPromise]]
            /\ UNCHANGED <<isRequestingPermissions, requestPromise, flow>>
       ELSE /\ isRequestingPermissions' = TRUE
            /\ requestPromise' = NextFlow
            /\ flow' = [flow EXCEPT ![NextFlow] =
                           [state |-> "racing", os |-> "sent", result |-> FALSE]]
            /\ rcall' = [rcall EXCEPT ![c] =
                           [RIdle EXCEPT !.at = "waiting", !.on = NextFlow]]
    /\ UNCHANGED <<isAndroid, nativeRequesting, permissionPromise, dialogs,
                   phoneStatePerm, chk, gateQuota, nonGateVars>>

\* CallLogModule.requestPermissions: rejected while a request is in progress
\* or when there is no activity, else the OS request is made.
NativeRequest(k) ==
    /\ flow[k].os = "sent"
    /\ IF nativeRequesting
       THEN /\ flow' = [flow EXCEPT ![k].os = "rejected"]
            /\ UNCHANGED <<nativeRequesting, permissionPromise, dialogs>>
       ELSE \E activity \in BOOLEAN :
               IF ~activity
               THEN /\ flow' = [flow EXCEPT ![k].os = "rejected"]
                    /\ UNCHANGED <<nativeRequesting, permissionPromise, dialogs>>
               ELSE /\ nativeRequesting' = TRUE
                    /\ permissionPromise' = k
                    /\ dialogs' = dialogs + 1
                    /\ flow' = [flow EXCEPT ![k].os = "dialog"]
    /\ UNCHANGED <<isAndroid, isRequestingPermissions, requestPromise, rcall,
                   phoneStatePerm, chk, gateQuota, nonGateVars>>

\* The permission listener: the OS request ends, the promise is resolved with
\* allGranted of the two permissions requested.
OsAnswer ==
    /\ dialogs > 0
    /\ permissionPromise # 0
    /\ flow' = [flow EXCEPT ![permissionPromise].os =
                   IF Granted("READ_PHONE_STATE") /\ Granted("READ_CALL_LOG")
                   THEN "granted" ELSE "denied"]
    /\ permissionPromise' = 0
    /\ nativeRequesting' = FALSE
    /\ dialogs' = dialogs - 1
    /\ UNCHANGED <<isAndroid, isRequestingPermissions, requestPromise, rcall,
                   phoneStatePerm, chk, gateQuota, nonGateVars>>

\* The end of a request: resolve(result), then the finally block.
FlowResolve(k, result) ==
    /\ flow' = [flow EXCEPT ![k].state = "resolved", ![k].result = result]
    /\ isRequestingPermissions' = FALSE
    /\ requestPromise' = 0

\* Variant: a rejection of the native promise counts as granted.
FlowSettle_RejectionGrants(k) ==
    /\ flow[k].state = "racing"
    /\ flow[k].os \in {"granted", "denied", "rejected"}
    /\ FlowResolve(k, flow[k].os \in {"granted", "rejected"})
    /\ UNCHANGED <<isAndroid, rcall, nativeRequesting, permissionPromise,
                   dialogs, phoneStatePerm, chk, gateQuota, nonGateVars>>

\* The native promise has settled first: its value, false when it rejected.
FlowSettle(k) ==
    /\ flow[k].state = "racing"
    /\ flow[k].os \in {"granted", "denied", "rejected"}
    /\ FlowResolve(k, flow[k].os = "granted")
    /\ UNCHANGED <<isAndroid, rcall, nativeRequesting, permissionPromise,
                   dialogs, phoneStatePerm, chk, gateQuota, nonGateVars>>

\* The 10 s timer fires first: false; the native request is left as it is.
FlowTimeout(k) ==
    /\ flow[k].state = "racing"
    /\ FlowResolve(k, FALSE)
    /\ UNCHANGED <<isAndroid, rcall, nativeRequesting, permissionPromise,
                   dialogs, phoneStatePerm, chk, gateQuota, nonGateVars>>

\* A caller's await of the request's promise.
RequestReturn(c) ==
    /\ rcall[c].at = "waiting"
    /\ flow[rcall[c].on].state = "resolved"
    /\ rcall' = [rcall EXCEPT ![c].at = "done",
                              ![c].result = flow[rcall[c].on].result]
    /\ UNCHANGED <<isAndroid, isRequestingPermissions, requestPromise, flow,
                   nativeRequesting, permissionPromise, dialogs,
                   phoneStatePerm, chk, gateQuota, nonGateVars>>

\* ------------------------------ permission checks and device reads (adapters)
\* The permission each device read checks first.
PermOf(r) == IF r = "getCallLogs" THEN "READ_CALL_LOG" ELSE "READ_CONTACTS"

\* What the native module returns to each read.
DeviceList(r) == IF r = "getCallLogs" THEN callLog ELSE device

\* isPermissionGranted resolves true only when the OS answered granted.
IsGranted(status) == status = "granted"
Settled(status) == status \in {"granted", "denied", "error", "timeout"}

\* hasCriticalPermissions up to its await of Promise.all.
HasCriticalPermissionsCall ==
    LET r == "hasCriticalPermissions" IN
    /\ chk[r].at = "idle"
    /\ MayCall
    /\ chk' = [chk EXCEPT ![r] =
          IF ~isAndroid
          THEN [KIdle EXCEPT !.at = "done"]
          ELSE [KIdle EXCEPT !.at = "checking",
                             !.check["READ_CALL_LOG"] = "pending",
                             !.check["READ_CONTACTS"] = "pending"]]
    /\ UNCHANGED <<isAndroid, isRequestingPermissions, requestPromise, flow,
                   rcall, nativeRequesting, permissionPromise, dialogs,
                   phoneStatePerm, gateQuota, nonGateVars>>

\* getCallLogs / getContacts up to the await of the permission check.
ReadCall(r) ==
    /\ r \in {"getCallLogs", "getContacts"}
    /\ chk[r].at = "idle"
    /\ MayCall
    /\ chk' = [chk EXCEPT ![r] =
          IF ~isAndroid
          THEN [KIdle EXCEPT !.at = "done"]
          ELSE [KIdle EXCEPT !.at = "checking", !.check[PermOf(r)] = "pending"]]
    /\ UNCHANGED <<isAndroid, isRequestingPermissions, requestPromise, flow,
                   rcall, nativeRequesting, permissionPromise, dialogs,
                   phoneStatePerm, gateQuota, nonGateVars>>

\* One isPermissionGranted call settles with the given status.
CheckSettle(r, m, status) ==
    /\ chk[r].check[m] = "pending"
    /\ chk' = [chk EXCEPT ![r].check[m] = status]
    /\ UNCHANGED <<isAndroid, isRequestingPermissions, requestPromise, flow,
                   rcall, nativeRequesting, permissionPromise, dialogs,
                   phoneStatePerm, gateQuota, nonGateVars>>

\* CallLogModule.isPermissionGranted resolves with the OS grant.
CheckAnswer(r, m) ==
    CheckSettle(r, m, IF Granted(m) THEN "granted" ELSE "denied")

\* CallLogModule.isPermissionGranted rejects or throws.
CheckError(r, m) == CheckSettle(r, m, "error")

\* The 5 s timer of isPermissionGranted fires first.
CheckTimeout(r, m) == CheckSettle(r, m, "timeout")

\* Variant: the phone-state permission is required as well.
HasCriticalPermissionsReturn_AllThree ==
    LET r == "hasCriticalPermissions" IN
    /\ chk[r].at = "checking"
    /\ Settled(chk[r].check["READ_CALL_LOG"])
    /\ Settled(chk[r].check["READ_CONTACTS"])
    /\ chk' = [chk EXCEPT ![r].at = "done",
                          ![r].granted =
                              /\ IsGranted(chk[r].check["READ_CALL_LOG"])
                              /\ IsGranted(chk[r].check["READ_CONTACTS"])
                              /\ Granted("READ_PHONE_STATE")]
    /\ UNCHANGED <<isAndroid, isRequestingPermissions, requestPromise, flow,
                   rcall, nativeRequesting, permissionPromise, dialogs,
                   phoneStatePerm, gateQuota, nonGateVars>>

\* Promise.all of the two checks has resolved: callLogPermission &&
\* contactsPermission.
HasCriticalPermissionsReturn ==
    LET r == "hasCriticalPermissions" IN
    /\ chk[r].at = "checking"
    /\ Settled(chk[r].check["READ_CALL_LOG"])
    /\ Settled(chk[r].check["READ_CONTACTS"])
    /\ chk' = [chk EXCEPT ![r].at = "done",
                          ![r].granted =
                              /\ IsGranted(chk[r].check["READ_CALL_LOG"])
                              /\ IsGranted(chk[r].check["READ_CONTACTS"])]
    /\ UNCHANGED <<isAndroid, isRequestingPermissions, requestPromise, flow,
                   rcall, nativeRequesting, permissionPromise, dialogs,
                   phoneStatePerm, gateQuota, nonGateVars>>

\* Variant: the read goes on to the native module whatever the check said.
ReadChecked_NoGate(r) ==
    /\ r \in {"getCallLogs", "getContacts"}
    /\ chk[r].at = "checking"
    /\ Settled(chk[r].check[PermOf(r)])
    /\ chk' = [chk EXCEPT ![r].at = "reading", ![r].native = "pending"]
    /\ UNCHANGED <<isAndroid, isRequestingPermissions, requestPromise, flow,
                   rcall, nativeRequesting, permissionPromise, dialogs,
                   phoneStatePerm, gateQuota, nonGateVars>>

\* The check has resolved: [] without the permission, else the native read
\* is started with its 15 s timer.
ReadChecked(r) ==
    /\ r \in {"getCallLogs", "getContacts"}
    /\ chk[r].at = "checking"
    /\ Settled(chk[r].check[PermOf(r)])
    /\ chk' = [chk EXCEPT ![r] =
          IF ~IsGranted(chk[r].check[PermOf(r)])
          THEN [chk[r] EXCEPT !.at = "done", !.list = <<>>]
          ELSE [chk[r] EXCEPT !.at = "reading", !.native = "pending"]]
    /\ UNCHANGED <<isAndroid, isRequestingPermissions, requestPromise, flow,
                   rcall, nativeRequesting, permissionPromise, dialogs,
                   phoneStatePerm, gateQuota, nonGateVars>>

\* The race of the native read and its timer settles.
ReadSettle(r, outcome, list) ==
    /\ r \in {"getCallLogs", "getContacts"}
    /\ chk[r].at = "reading"
    /\ chk' = [chk EXCEPT ![r].at = "done", ![r].native = outcome,
                          ![r].list = list]
    /\ UNCHANGED <<isAndroid, isRequestingPermissions, requestPromise, flow,
                   rcall, nativeRequesting, permissionPromise, dialogs,
                   phoneStatePerm, gateQuota, nonGateVars>>

\* The native module, which checks the permission itself, resolves with the
\* entries.
ReadAnswer(r) ==
    /\ Granted(PermOf(r))
    /\ ReadSettle(r, "answered", DeviceList(r))

\* The native module rejects or throws.
ReadError(r) == ReadSettle(r, "error", <<>>)

\* The 15 s timer fires first.
ReadTimeout(r) == ReadSettle(r, "timeout", <<>>)

GateNext ==
    \/ \E c \in GateCallers : RequestPermissions(c)
    \/ \E k \in GateCallers : NativeRequest(k)
    \/ OsAnswer
    \/ \E k \in GateCallers : FlowSettle(k)
    \/ \E k \in GateCallers : FlowTimeout(k)
    \/ \E c \in GateCallers : RequestReturn(c)
    \/ HasCriticalPermissionsCall
    \/ \E r \in Readers : ReadCall(r)
    \/ \E r \in Readers, m \in Perms : CheckAnswer(r, m)
    \/ \E r \in Readers, m \in Perms : CheckError(r, m)
    \/ \E r \in Readers, m \in Perms : CheckTimeout(r, m)
    \/ HasCriticalPermissionsReturn
    \/ \E r \in Readers : ReadChecked(r)
    \/ \E r \in Readers : ReadAnswer(r)
    \/ \E r \in Readers : ReadError(r)
    \/ \E r \in Readers : ReadTimeout(r)

GateSpecInit ==
    /\ SyncInit(0)
    /\ storedUser = "none"
    /\ contacts = {}
    /\ nextId = 1
    /\ device = <<[name |-> NameSara, number |-> MobileDomestic]>>
    /\ proc = [p \in Procs |-> Idle]
    /\ opsStarted = 0
    /\ opsQuota = 0
    /\ book = <<>>
    /\ nextBookId = 1
    /\ brun = BIdle
    /\ bruns = 0
    /\ callLog \in InitialCallLogs
    /\ calls = <<>>
    /\ crun = CIdle
    /\ cruns = 0
    /\ runQuota = 0
    /\ isAndroid \in BOOLEAN
    /\ isRequestingPermissions = FALSE
    /\ requestPromise = 0
    /\ flow = [k \in GateCallers |-> FlowNone]
    /\ rcall = [c \in GateCallers |-> RIdle]
    /\ nativeRequesting = FALSE
    /\ permissionPromise = 0
    /\ dialogs = 0
    /\ phoneStatePerm \in BOOLEAN
    /\ chk = [r \in Readers |-> KIdle]
    /\ gateQuota = MaxGateOps
    /\ normIn = <<>>
    /\ normOut = NotCalled
    /\ RegFrozen
    /\ AuthFrozen

GateSpec == GateSpecInit /\ [][GateNext]_vars

\* The event loop runs a timer callback that is due and a continuation whose
\* promise has settled; nothing is assumed of the OS or the native module.
GateFairness ==
    /\ WF_vars(\E k \in GateCallers : FlowSettle(k) \/ FlowTimeout(k))
    /\ WF_vars(\E c \in GateCallers : RequestReturn(c))

\* The requestPermissions calls alone: the reads and checks share no state
\* with a request but the granted permissions, which they only read.
GateRequestNext ==
    \/ \E c \in GateCallers : RequestPermissions(c)
    \/ \E k \in GateCallers : NativeRequest(k)
    \/ OsAnswer
    \/ \E k \in GateCallers : FlowSettle(k)
    \/ \E k \in GateCallers : FlowTimeout(k)
    \/ \E c \in GateCallers : RequestReturn(c)

GateLiveSpec == GateSpecInit /\ [][GateRequestNext]_vars /\ GateFairness

\* ------------------------------------------------ the phone number normalizer
\* Subscriber numbers: mobile numbers (10 digits starting with 9), numbers
\* of 10 and 11 digits whose first two digits are a listed area code, and
\* other strings of digits.
MobileBodies == {<<"9", "1", "2", "3", "4", "5", "6", "7", "8", "9">>, <<"9", "3", "5", "2", "2", "2", "2", "2", "2", "2">>, <<"9", "0", "0", "0", "0", "0", "0", "0", "0", "0">>}
AreaCodeBodies == {<<"2", "1", "1", "2", "3", "4", "5", "6", "7", "8">>, <<"3", "1", "8", "7", "6", "5", "4", "3", "2", "1">>, <<"2", "1", "1", "2", "3", "4", "5", "6", "7", "8", "9">>, <<"9", "1", "1", "2", "3", "4", "5", "6", "7", "8", "9">>, <<"5", "1", "1", "2", "3", "4", "5", "6", "7", "8">>}
OtherBodies == {<<"2", "2", "1", "2", "3", "4", "5", "6", "7", "8">>, <<"2", "1", "1", "2", "3", "4", "5", "6", "7">>, <<"9", "1", "2", "3", "4", "5", "6", "7", "8">>, <<"2", "1">>}
Bodies == MobileBodies \cup AreaCodeBodies \cup OtherBodies

\* The ways a number is written: bare, with the trunk prefix 0, with +98,
\* with 0098, with 98, and with separators after the prefix.
TrunkPrefix == <<"0">>
DocumentedPrefixes == {<<"+", "9", "8">>, <<"0", "0", "9", "8">>, <<"0">>, <<>>}
Prefixes == DocumentedPrefixes \cup {<<"9", "8">>, <<"0", " ">>, <<"+", "9", "8", "-">>}
NormInputs == {pre \o body : pre \in Prefixes, body \in Bodies}

\* One call of normalizeIranianPhoneNumber.
Normalize ==
    /\ ~normOut.done
    /\ normOut' = [done |-> TRUE,
                   normalized |-> normalizeIranianPhoneNumber(normIn).normalized,
                   isValid |-> normalizeIranianPhoneNumber(normIn).isValid,
                   type |-> normalizeIranianPhoneNumber(normIn).type]
    /\ UNCHANGED <<normIn, mirrorVars, callVars, runQuota, gateVars, appVars,
                   storeVars, syncVars>>

NormNext == Normalize

NormSpecInit ==
    /\ SyncFrozen
    /\ StoreFrozen
    /\ book = <<>>
    /\ nextBookId = 1
    /\ brun = BIdle
    /\ bruns = 0
    /\ callLog = <<>>
    /\ calls = <<>>
    /\ crun = CIdle
    /\ cruns = 0
    /\ runQuota = 0
    /\ isAndroid = TRUE
    /\ isRequestingPermissions = FALSE
    /\ requestPromise = 0
    /\ flow = [k \in GateCallers |-> FlowNone]
    /\ rcall = [c \in GateCallers |-> RIdle]
    /\ nativeRequesting = FALSE
    /\ permissionPromise = 0
    /\ dialogs = 0
    /\ phoneStatePerm = FALSE
    /\ chk = [r \in Readers |-> KIdle]
    /\ gateQuota = 0
    /\ normIn \in NormInputs
    /\ normOut = NotCalled
    /\ RegFrozen
    /\ AuthFrozen

NormSpec == NormSpecInit /\ [][NormNext]_vars

\* ---------------------------------------- registration of the background tasks
nonRegVars == <<mirrorVars, callVars, runQuota, gateVars, normVars, authVars,
                storeVars, syncVars>>

RegCalls == Cardinality({c \in RegCallers : reg[c].kind # "none"})
MayRegister == RegCalls < regQuota

\* The task registerBackgroundSync and registerDeviceDataSync register.
Registrars == Tasks

\* unregisterBackgroundSync: const tasks = [BACKGROUND_SYNC_TASK, DEVICE_SYNC_TASK]
UnregisterOrder == <<BACKGROUND_SYNC_TASK, DEVICE_SYNC_TASK>>

RegReturn(rec, r) == [rec EXCEPT !.at = "done", !.result = r]

\* registerBackgroundSync / registerDeviceDataSync up to the first await.
RegisterCall(c, t) ==
    /\ reg[c].kind = "none"
    /\ MayRegister
    /\ reg' = [reg EXCEPT ![c] = [RegIdle EXCEPT !.kind = "register",
                                                !.at = "status", !.task = t]]
    /\ UNCHANGED <<bgStatus, registered, isTaskRegistered,
                   registerTaskAsyncCalls, regQuota, nonRegVars>>

\* const status = await BackgroundFetch.getStatusAsync()
RegisterStatus(c) ==
    /\ reg[c].at = "status"
    /\ reg' = [reg EXCEPT ![c] =
                 IF bgStatus = "Available"
                 THEN [reg[c] EXCEPT !.at = "check"]
                 ELSE RegReturn(reg[c], "failure")]
    /\ UNCHANGED <<bgStatus, registered, isTaskRegistered,
                   registerTaskAsyncCalls, regQuota, nonRegVars>>

\* const isRegistered = await TaskManager.isTaskRegisteredAsync(task)
RegisterCheck(c) ==
    /\ reg[c].at = "check"
    /\ LET isRegistered == reg[c].task \in registered
       IN  reg' = [reg EXCEPT ![c] =
                     IF isRegistered
                     THEN RegReturn(reg[c], "success")
                     ELSE [reg[c] EXCEPT !.at = "register"]]
    /\ UNCHANGED <<bgStatus, registered, isTaskRegistered,
                   registerTaskAsyncCalls, regQuota, nonRegVars>>

\* await BackgroundFetch.registerTaskAsync(task, ...)
RegisterTaskAsync(c) ==
    /\ reg[c].at = "register"
    /\ registered' = registered \cup {reg[c].task}
    /\ registerTaskAsyncCalls' =
          [registerTaskAsyncCalls EXCEPT ![reg[c].task] = @ + 1]
    /\ reg' = [reg EXCEPT ![c].at = "registered"]
    /\ UNCHANGED <<bgStatus, isTaskRegistered, regQuota, nonRegVars>>

\* isTaskRegistered = true; return { success: true }
RegisterDone(c) ==
    /\ reg[c].at = "registered"
    /\ isTaskRegistered' = TRUE
    /\ reg' = [reg EXCEPT ![c] = RegReturn(reg[c], "success")]
    /\ UNCHANGED <<bgStatus, registered, registerTaskAsyncCalls, regQuota,
                   nonRegVars>>

\* unregisterBackgroundSync up to the first await.
UnregisterCall(c) ==
    /\ reg[c].kind = "none"
    /\ MayRegister
    /\ reg' = [reg EXCEPT ![c] = [RegIdle EXCEPT !.kind = "unregister",
                                                !.at = "unregister", !.idx = 1]]
    /\ UNCHANGED <<bgStatus, registered, isTaskRegistered,
                   registerTaskAsyncCalls, regQuota, nonRegVars>>

\* await BackgroundFetch.unregisterTaskAsync(task); a throw for a task that
\* is not registered is caught and logged.
UnregisterTaskAsync(c) ==
    /\ reg[c].at = "unregister"
    /\ reg[c].idx <= Len(UnregisterOrder)
    /\ registered' = registered \ {UnregisterOrder[reg[c].idx]}
    /\ reg' = [reg EXCEPT ![c].idx = @ + 1]
    /\ UNCHANGED <<bgStatus, isTaskRegistered, registerTaskAsyncCalls, regQuota,
                   nonRegVars>>

\* isTaskRegistered = false; return { success: true }
UnregisterDone(c) ==
    /\ reg[c].at = "unregister"
    /\ reg[c].idx > Len(UnregisterOrder)
    /\ isTaskRegistered' = FALSE
    /\ reg' = [reg EXCEPT ![c] = RegReturn(reg[c], "success")]
    /\ UNCHANGED <<bgStatus, registered, registerTaskAsyncCalls, regQuota,
                   nonRegVars>>

RegNext ==
    \/ \E c \in RegCallers, t \in Registrars : RegisterCall(c, t)
    \/ \E c \in RegCallers : RegisterStatus(c)
    \/ \E c \in RegCallers : RegisterCheck(c)
    \/ \E c \in RegCallers : RegisterTaskAsync(c)
    \/ \E c \in RegCallers : RegisterDone(c)
    \/ \E c \in RegCallers : UnregisterCall(c)
    \/ \E c \in RegCallers : UnregisterTaskAsync(c)
    \/ \E c \in RegCallers : UnregisterDone(c)

\* The passes that are not running, for the registration and the sign-in
\* specification.
NoPasses ==
    /\ book = <<>>
    /\ nextBookId = 1
    /\ brun = BIdle
    /\ bruns = 0
    /\ callLog = <<>>
    /\ calls = <<>>
    /\ crun = CIdle
    /\ cruns = 0
    /\ runQuota = 0
    /\ isAndroid = TRUE
    /\ isRequestingPermissions = FALSE
    /\ requestPromise = 0
    /\ flow = [k \in GateCallers |-> FlowNone]
    /\ rcall = [c \in GateCallers |-> RIdle]
    /\ nativeRequesting = FALSE
    /\ permissionPromise = 0
    /\ dialogs = 0
    /\ phoneStatePerm = FALSE
    /\ chk = [r \in Readers |-> KIdle]
    /\ gateQuota = 0
    /\ normIn = <<>>
    /\ normOut = NotCalled

RegSpecInit ==
    /\ SyncFrozen
    /\ StoreFrozen
    /\ NoPasses
    /\ AuthFrozen
    /\ bgStatus \in {"Available", "Denied", "Restricted"}
    /\ registered \in SUBSET Tasks
    /\ isTaskRegistered = FALSE
    /\ reg = [c \in RegCallers |-> RegIdle]
    /\ registerTaskAsyncCalls = [t \in Tasks |-> 0]
    /\ regQuota = MaxRegOps

RegSpec == RegSpecInit /\ [][RegNext]_vars

\* ------------------------------------------------ sign-in and the stored user id
nonAuthVars == <<isSyncing, lastSyncTime, now, holder, pc, res, overall, work,
                 attempted, entry, remoteWrites, deviceWrites, tpc, tres,
                 tentry, fetch, callLogPerm, contactsPerm, quota,
                 mirrorVars, callVars, runQuota, gateVars, normVars, regVars,
                 storeVars>>

\* The accounts that sign in on the device.
AuthUsers == {"u1", "u2"}

\* The first callback slot not used yet.
NextEvent == 1 + Cardinality({e \in AuthEvents : handler[e].at # "none"})

\* signIn: signInWithPassword sets the session and emits SIGNED_IN; the
\* callback sets the session and user state and awaits fetchUserData.
SignIn ==
    /\ session = "none"
    /\ authOps < authQuota
    /\ \E u \in AuthUsers :
          /\ session' = u
          /\ user' = u
          /\ handler' = [handler EXCEPT ![NextEvent] =
                            [at |-> "fetch", user |-> u]]
    /\ authOps' = authOps + 1
    /\ UNCHANGED <<so, authQuota, storedUser, nonAuthVars>>

\* await fetchUserData(session.user.id): it catches its own errors.
HandlerFetched(e) ==
    /\ handler[e].at = "fetch"
    /\ handler' = [handler EXCEPT ![e].at = "set"]
    /\ UNCHANGED <<session, user, so, authOps, authQuota, storedUser,
                   nonAuthVars>>

\* await AsyncStorage.setItem(USER_ID_KEY, session.user.id)
HandlerSetItem(e) ==
    /\ handler[e].at = "set"
    /\ storedUser' = handler[e].user
    /\ handler' = [handler EXCEPT ![e].at = "done"]
    /\ UNCHANGED <<session, user, so, authOps, authQuota, nonAuthVars>>

\* The callback for an event without a session:
\* await AsyncStorage.removeItem(USER_ID_KEY)
HandlerRemoveItem(e) ==
    /\ handler[e].at = "remove"
    /\ storedUser' = "none"
    /\ handler' = [handler EXCEPT ![e].at = "done"]
    /\ UNCHANGED <<session, user, so, authOps, authQuota, nonAuthVars>>

\* signOut up to its first await: the state is cleared.
SignOutCall ==
    /\ so = "idle"
    /\ user # "none"
    /\ authOps < authQuota
    /\ user' = "none"
    /\ so' = "remove"
    /\ authOps' = authOps + 1
    /\ UNCHANGED <<session, handler, authQuota, storedUser, nonAuthVars>>

\* await AsyncStorage.removeItem(USER_ID_KEY); a throw goes to the catch,
\* which skips supabase.auth.signOut().
SignOutRemove ==
    /\ so = "remove"
    /\ \E ok \in BOOLEAN :
          IF ok THEN storedUser' = "none" /\ so' = "auth"
                ELSE so' = "idle" /\ UNCHANGED storedUser
    /\ UNCHANGED <<session, user, handler, authOps, authQuota, nonAuthVars>>

\* await supabase.auth.signOut(): the session ends and SIGNED_OUT is
\* emitted, whose callback clears the state; an error is logged.
SignOutAuth ==
    /\ so = "auth"
    /\ so' = "idle"
    /\ \E ok \in BOOLEAN :
          IF ok /\ session # "none"
          THEN /\ session' = "none"
               /\ user' = "none"
               /\ handler' = [handler EXCEPT ![NextEvent] =
                                 [at |-> "remove", user |-> "none"]]
          ELSE UNCHANGED <<session, user, handler>>
    /\ UNCHANGED <<authOps, authQuota, storedUser, nonAuthVars>>

AuthNext ==
    \/ SignIn
    \/ \E e \in AuthEvents : HandlerFetched(e)
    \/ \E e \in AuthEvents : HandlerSetItem(e)
    \/ \E e \in AuthEvents : HandlerRemoveItem(e)
    \/ SignOutCall
    \/ SignOutRemove
    \/ SignOutAuth

AuthSpecInit ==
    /\ SyncFrozen
    /\ StoreFrozen
    /\ NoPasses
    /\ RegFrozen
    /\ session = "none"
    /\ user = "none"
    /\ handler = [e \in AuthEvents |-> HNone]
    /\ so = "idle"
    /\ authOps = 0
    /\ authQuota = MaxAuthOps

AuthSpec == AuthSpecInit /\ [][AuthNext]_vars

\* ------------------------------------------------------------ properties
InRun(i) == pc[i] \notin {"idle", "done"}

\* C1: a manual syncAllDeviceData call made while another manual invocation
\* holds the in-progress flag returns at once with the skipped result: it
\* enters no pass, writes nothing, leaves isSyncing and lastSyncTime as they
\* were, and the holder is the one invocation performing the passes.
C1_SecondCallSkipped ==
    [][\A i \in Manual :
          (pc[i] = "idle" /\ pc'[i] # "idle" /\ holder \in Manual \ {i}) =>
              /\ pc'[i] = "done"
              /\ res'[i] = "skipped"
              /\ attempted'[i] = {}
              /\ InRun(holder)
              /\ {j \in Callers : InRun(j)}' = {holder}
              /\ UNCHANGED <<isSyncing, lastSyncTime, holder, work,
                             remoteWrites, deviceWrites>>]_vars

C1_Witness ==
    \E i \in Manual, j \in Manual :
        /\ i # j
        /\ pc[i] = "done" /\ res[i] = "skipped"
        /\ InRun(j) /\ holder = j
        /\ \A t \in Tasks : tpc[t] = "idle"

\* C2: at most one reconciliation pass is executing at any time.
C2_AtMostOnePassRunning ==
    Cardinality({ip \in Callers \X Passes : work[ip[1]][ip[2]] = "running"}) <= 1

\* C3: once the device task has obtained the user id and its call of
\* syncAllDeviceData has returned, Pass A, Pass B and Pass C have been run.
C3_DeviceTaskRunsPasses ==
    (tentry[DEVICE_SYNC_TASK] = "acquired" /\ storedUser # "none" /\ pc["d"] = "done")
        => attempted["d"] = Passes

\* C4: the flag is set exactly while some invocation holds it, and an
\* invocation that has returned never holds it, so a later call is not
\* skipped on its account.
C4_FlagClearedOnReturn ==
    /\ isSyncing <=> holder # "none"
    /\ \A i \in Callers : pc[i] = "done" => holder # i

C4_Witness ==
    \E i \in Manual, j \in Manual :
        /\ i # j
        /\ Returned(i)
        /\ InRun(j) /\ holder = j

\* C5: within one run, Pass B's work has not started while Pass A's work is
\* running, and Pass C's work has not started while Pass B's work is running.
C5_PassesSequential ==
    \A i \in Callers :
        /\ work[i]["B"] # "none" => work[i]["A"] # "running"
        /\ work[i]["C"] # "none" => work[i]["B"] # "running"

\* C6: with neither critical permission granted, a syncAllDeviceData run
\* returns failure, has started the work of no pass, and neither the device
\* address book nor the remote store was written.
C6_NoPermissionNoPass ==
    \A i \in Callers :
        (~callLogPerm /\ ~contactsPerm /\ Returned(i)) =>
            /\ res[i] = "failure"
            /\ \A p \in Passes : work[i][p] = "none"
            /\ ~remoteWrites /\ ~deviceWrites

\* C7: a scheduled task that fires inside the cooldown window returns NoData
\* in that step, starts no pass and no fetch, and leaves isSyncing and
\* lastSyncTime as they were.
C7_CooldownSkips ==
    [][\A t \in Tasks :
          (tpc[t] = "idle" /\ tpc'[t] # "idle"
              /\ now - lastSyncTime < SYNC_COOLDOWN) =>
              /\ tpc'[t] = "done"
              /\ tres'[t] = "NoData"
              /\ UNCHANGED <<isSyncing, lastSyncTime, holder, pc, work,
                             attempted, fetch, remoteWrites, deviceWrites>>]_vars

C7_Witness ==
    \E t \in Tasks :
        tpc[t] = "done" /\ tentry[t] = "cooldown" /\ tres[t] = "NoData"

\* C8: a manual call made inside the cooldown window with no sync in progress
\* takes the flag, stamps lastSyncTime and enters Pass A.
C8_ManualIgnoresCooldown ==
    [][\A i \in Manual :
          (pc[i] = "idle" /\ pc'[i] # "idle" /\ ~isSyncing
              /\ now - lastSyncTime < SYNC_COOLDOWN) =>
              /\ pc'[i] = "A_perm"
              /\ "A" \in attempted'[i]
              /\ isSyncing'
              /\ lastSyncTime' = now]_vars

C8_Witness ==
    \E i \in Manual :
        entry[i] = "inside" /\ Returned(i) /\ attempted[i] = Passes

\* C9: every syncAllDeviceData invocation that has started eventually returns
\* with isSyncing false, when only the timers are fair.
C9_EveryRunReturns ==
    \A i \in Callers : InRun(i) ~> (pc[i] = "done" /\ ~isSyncing)

C9_Witness ==
    \E i \in Manual :
        /\ Returned(i)
        /\ \E p \in Passes : work[i][p] = "running"

\* C10: whatever createContact, updateContact, deleteContact and Pass A of
\* any users have done and are doing, no two rows of the remote store have
\* the same canonical phone number.
C10_OneContactPerCanonicalNumber ==
    \A r1 \in contacts, r2 \in contacts :
        CanonicalOf(r1.phone_number) = CanonicalOf(r2.phone_number) => r1 = r2

C10_Witness ==
    \E p \in Procs, q \in Procs, r \in contacts :
        /\ p # q
        /\ proc[p].result = "db"
        /\ proc[q].result = "ok"
        /\ r.phone_number = MobileIntl
        /\ Cardinality(contacts) = 1

\* C11: a step of updateContact or deleteContact that finds the contact
\* owned by a user other than the acting user changes neither the remote
\* store nor the device, goes no further than the ownership check, and the
\* operation returns the ownership error.
C11_NonOwnerRejected ==
    [][\A p \in Procs :
          (/\ proc[p].kind \in {"update", "delete"}
           /\ proc'[p] # proc[p]
           /\ OwnedByAnother(proc[p].id, proc[p].user)) =>
              /\ UNCHANGED <<contacts, device>>
              /\ proc'[p].at \in {"idle", "d_owner"}
              /\ proc'[p].at = "idle" => proc'[p].result = "notOwner"]_vars

C11_Witness ==
    \E p \in Procs :
        /\ proc[p].result = "notOwner"
        /\ opsStarted = 1
        /\ contacts = {RowAli}

\* C12: when createContact, called with a raw number that normalizes to n,
\* queries the store while a contact with number n is owned by another user,
\* it returns the error naming that contact, inserts no row and writes
\* nothing to the device; called by Pass A, the error is counted.
C12_CreateOverForeignNumberFails ==
    [][\A p \in Procs : \A r \in contacts :
          (/\ proc[p].kind = "create" /\ proc[p].at = "c_query"
           /\ proc'[p] # proc[p]
           /\ r.phone_number = CanonicalOf(Trim(proc[p].phone))
           /\ r.created_by_user_id # proc[p].user) =>
              /\ UNCHANGED <<contacts, nextId, device>>
              /\ proc[p].parent = "none" =>
                    /\ proc'[p].at = "idle"
                    /\ proc'[p].result = "conflict"
                    /\ proc'[p].errorName = r.name
              /\ proc[p].parent = "passA" =>
                    /\ proc'[p].at = "a_item"
                    /\ proc'[p].errors = proc[p].errors + 1
                    /\ proc'[p].added = proc[p].added]_vars

C12_Witness ==
    \E p \in Procs :
        /\ proc[p].result = "conflict"
        /\ proc[p].errorName = NameAli
        /\ opsStarted = 1
        /\ contacts = {RowAli}

\* C13: no step of Pass A run by user U removes or changes a contact owned by
\* another user or adds a second contact with that contact's number; and a
\* device contact whose number is that of a contact owned by another user
\* is passed over with added, updated and errors as they were.
C13_PassASkipsForeignContacts ==
    [][\A p \in Procs :
          ((proc[p].kind = "passA" \/ proc[p].parent = "passA")
              /\ proc'[p] # proc[p]) =>
              /\ \A r \in contacts :
                    r.created_by_user_id # proc[p].user =>
                        /\ r \in contacts'
                        /\ \A r2 \in contacts' :
                              r2.phone_number = r.phone_number => r2 = r
              /\ (proc[p].at = "a_item" /\ proc[p].idx <= Len(proc[p].list)) =>
                    LET deviceContact == proc[p].list[proc[p].idx]
                        n == normalizeIranianPhoneNumber(deviceContact.number)
                    IN  (n.isValid /\ \E r \in RowsWithNumber(n.normalized) :
                                        r.created_by_user_id # proc[p].user) =>
                            /\ proc'[p] = [proc[p] EXCEPT !.idx = proc[p].idx + 1]
                            /\ UNCHANGED <<contacts, device>>]_vars

C13_Witness ==
    \E p \in Procs :
        /\ proc[p].kind = "passA" /\ proc[p].user = "U2"
        /\ proc[p].idx = 2
        /\ CanonicalOf(proc[p].list[1].number) = RowAli.phone_number
        /\ contacts = {RowAli}
        /\ opsStarted = 1
        /\ proc[p].added = 0 /\ proc[p].updated = 0 /\ proc[p].errors = 0

\* The device contact the Pass A run of p is at, and the steps of its
\* createContact call.
EntryOf(p) == proc[p].list[proc[p].idx]
PassACreateStep(p) ==
    proc[p].kind = "create" /\ proc[p].parent = "passA" /\ proc'[p] # proc[p]
PassACreated(p, name) ==
    [id |-> nextId, name |-> name,
     phone_number |-> CanonicalOf(EntryOf(p).number),
     created_by_user_id |-> proc[p].user]
PassAMissingEntry(p) ==
    /\ proc[p].at = "a_item" /\ proc[p].idx <= Len(proc[p].list)
    /\ proc'[p] # proc[p]
    /\ normalizeIranianPhoneNumber(EntryOf(p).number).isValid
    /\ RowsWithNumber(CanonicalOf(EntryOf(p).number)) = {}

\* C14 (as stated): for a device contact with a valid number n that no remote
\* contact has, Pass A run by U inserts the one contact with the device
\* contact's name, number n and owner U, and added grows by one exactly when
\* the run has inserted a contact.
C14_PassACreatesNamedContact ==
    [][\A p \in Procs :
          /\ PassAMissingEntry(p) =>
                proc'[p].kind = "create" /\ proc'[p].at = "c_query"
          /\ (PassACreateStep(p) /\ contacts' # contacts) =>
                /\ contacts' = contacts \cup {PassACreated(p, EntryOf(p).name)}
                /\ nextId' = nextId + 1
          /\ (PassACreateStep(p) /\ proc'[p].at = "a_item") =>
                /\ proc'[p].added \in {proc[p].added, proc[p].added + 1}
                /\ proc'[p].added = proc[p].added + 1 <=> proc[p].at = "c_device"]_vars

\* C14 (amended): the contact inserted has the device contact's name trimmed,
\* 'Unknown' for an empty name; and added grows by one exactly when the
\* createContact call returns success, which it also does on finding a
\* contact the same user has inserted since the loop's lookup.
C14_PassACreatesMissing ==
    [][\A p \in Procs :
          /\ PassAMissingEntry(p) =>
                /\ proc'[p].kind = "create" /\ proc'[p].at = "c_query"
                /\ proc'[p].user = proc[p].user
                /\ proc'[p].norm = CanonicalOf(EntryOf(p).number)
                /\ UNCHANGED <<contacts, device>>
          /\ (PassACreateStep(p) /\ contacts' # contacts) =>
                /\ contacts' = contacts \cup
                      {PassACreated(p, Trim(NameOrUnknown(EntryOf(p).name)))}
                /\ nextId' = nextId + 1
          /\ (PassACreateStep(p) /\ proc'[p].at = "a_item") =>
                /\ proc'[p].added \in {proc[p].added, proc[p].added + 1}
                /\ proc'[p].added = proc[p].added + 1 <=>
                      \/ proc[p].at = "c_device"
                      \/ /\ proc[p].at = "c_query"
                         /\ \E r \in RowsWithNumber(proc[p].norm) :
                               r.created_by_user_id = proc[p].user]_vars

C14_Witness ==
    \E p \in Procs, u \in Users :
        /\ proc[p].at = "idle" /\ proc[p].result = "ok"
        /\ proc[p].added = 1 /\ proc[p].updated = 0 /\ proc[p].errors = 0
        /\ opsStarted = 1
        /\ contacts = {[id |-> 1, name |-> Trim(NameSara),
                        phone_number |-> CanonicalOf(MobileDomestic),
                        created_by_user_id |-> u]}

\* C15: a device contact whose number is missing or does not normalize is
\* passed over by Pass A: the remote store, the device and the counters stay
\* as they were, the loop moves to the next entry, and the pass returns
\* success after the last entry.
C15_InvalidEntrySkipped ==
    [][\A p \in Procs :
          (proc[p].at = "a_item" /\ proc'[p] # proc[p]) =>
              /\ (/\ proc[p].idx <= Len(proc[p].list)
                  /\ ~normalizeIranianPhoneNumber(EntryOf(p).number).isValid) =>
                    /\ proc'[p] = [proc[p] EXCEPT !.idx = proc[p].idx + 1]
                    /\ UNCHANGED <<contacts, nextId, device>>
              /\ proc[p].idx > Len(proc[p].list) =>
                    /\ proc'[p].at = "idle" /\ proc'[p].result = "ok"
                    /\ proc'[p].errors = proc[p].errors]_vars

C15_Witness ==
    \E p \in Procs :
        /\ proc[p].at = "idle" /\ proc[p].result = "ok"
        /\ proc[p].added = 0 /\ proc[p].updated = 0 /\ proc[p].errors = 0
        /\ opsStarted = 1
        /\ device = <<[name |-> NameAli, number |-> <<>>]>>
        /\ contacts \in InitialStores

\* C16: for the remote contact a Pass B iteration is at: when no contact of
\* the address book has a number equal to its number, one device contact
\* with its name and number is added and added grows by one; otherwise the
\* first such device contact gets its name exactly when the names differ,
\* with every number as it was, and updated grows by one; a device write
\* that throws changes nothing and is counted in errors.
C16_PassBMirrorsEachContact ==
    [][(brun.at = "b_item" /\ brun' # brun /\ brun.idx <= Len(brun.server)) =>
          LET serverContact == brun.server[brun.idx]
              found == BookMatches(book, serverContact.phone_number)
              counted(a, u, e) ==
                  brun' = [brun EXCEPT !.idx = brun.idx + 1,
                                       !.added = brun.added + a,
                                       !.updated = brun.updated + u,
                                       !.errors = brun.errors + e]
              failed == book' = book /\ counted(0, 0, 1)
          IN  IF found = {}
              THEN \/ /\ book' = Append(book,
                              [id |-> nextBookId,
                               firstName |-> serverContact.name,
                               phoneNumbers |-> <<serverContact.phone_number>>])
                      /\ counted(1, 0, 0)
                   \/ failed
              ELSE LET k == FirstIn(found)
                   IN  IF book[k].firstName # serverContact.name
                       THEN \/ /\ book' = [book EXCEPT
                                             ![k].firstName = serverContact.name]
                               /\ counted(0, 1, 0)
                            \/ failed
                       ELSE book' = book /\ counted(0, 0, 0)]_vars

\* C17: no step removes a contact from the device address book: the ids
\* present before a step are present after it.
C17_PassBNeverRemoves ==
    [][BookIds(book) \subseteq BookIds(book')]_vars

C17_Witness ==
    /\ brun.at = "idle" /\ brun.result = "ok"
    /\ bruns = 2
    /\ brun.server = <<>>
    /\ contacts = {}
    /\ \E k \in 1..Len(book) : book[k].phoneNumbers = <<RowAli.phone_number>>

\* The row a logCall insert step adds for entry k, when it adds one.
Inserted(k) ==
    /\ crun.at = "c_batch" /\ k \in Batch
    /\ crun.step[k] = "insert" /\ crun'.step[k] = "done"

C19_CallsAppendOnly ==
    [][/\ Len(calls') >= Len(calls)
       /\ \A j \in 1..Len(calls) : calls'[j] = calls[j]]_vars

C19_Witness ==
    /\ \E j \in 1..Len(calls) :
          /\ calls[j].contact_id = Null
          /\ RowsWithNumber(calls[j].phone_number) # {}
    /\ crun.at = "idle"
    /\ \A p \in Procs : proc[p].at = "idle"
    /\ opsStarted = 1

C21_DeviceFailureKeepsRemoteWrite ==
    [][\A p \in Procs :
          (proc[p].at \in {"c_device", "u_device", "d_device"}
             /\ proc'[p] # proc[p]) =>
              /\ contacts' = contacts
              /\ proc'[p] = Finish(proc[p], "ok")]_vars

\* createContact has returned success with the new row in the remote store
\* while the device address book, empty before, received nothing.
C21_Witness ==
    /\ opsStarted = 1
    /\ proc["p1"].at = "idle" /\ proc["p1"].result = "ok"
    /\ device = <<>>
    /\ \E r \in contacts : r.id = 2 /\ r.phone_number = CanonicalOf(MobileOther)

\* C22: every syncAllDeviceData invocation that has finished holds a result
\* value (success, failure, or the in-progress skip) and every scheduled task
\* that has finished holds a background-fetch result; none ends by throwing.
C22_AlwaysResultValue ==
    /\ \A i \in Callers :
          pc[i] = "done" => res[i] \in {"success", "failure", "skipped"}
    /\ \A t \in Tasks :
          tpc[t] = "done" => tres[t] \in {"NewData", "NoData", "Failed"}

\* A manual sync whose passes failed has returned failure and the device
\* task whose user id read timed out has returned Failed.
C22_Witness ==
    /\ pc["m1"] = "done" /\ res["m1"] = "failure"
    /\ tpc[DEVICE_SYNC_TASK] = "done" /\ tres[DEVICE_SYNC_TASK] = "Failed"
    /\ tentry[DEVICE_SYNC_TASK] = "acquired"
    /\ pc["d"] = "idle"

\* C23: when the device task's read of the stored user id answers and there
\* is none (the step out of the read that is not the 10 s timer's), the task
\* returns NoData, its syncAllDeviceData is not called, so no pass is entered
\* and no pass work started, nothing is written to the remote store or the
\* device, and isSyncing is false afterwards.
C23_NoUserNoData ==
    [][(/\ tpc[DEVICE_SYNC_TASK] = "getUser"
        /\ tpc'[DEVICE_SYNC_TASK] # "getUser"
        /\ storedUser = "none"
        /\ ~DeviceSyncTaskUserTimeout) =>
            /\ tpc'[DEVICE_SYNC_TASK] = "done"
            /\ tres'[DEVICE_SYNC_TASK] = "NoData"
            /\ pc'["d"] = "idle"
            /\ attempted'["d"] = {}
            /\ work' = work
            /\ remoteWrites' = remoteWrites
            /\ deviceWrites' = deviceWrites
            /\ isSyncing' = FALSE]_vars

C23_Witness ==
    /\ storedUser = "none"
    /\ tpc[DEVICE_SYNC_TASK] = "done"
    /\ tentry[DEVICE_SYNC_TASK] = "acquired"
    /\ tres[DEVICE_SYNC_TASK] = "NoData"
    /\ ~isSyncing
    /\ pc["d"] = "idle"

C26_CriticalIsCallLogAndContacts ==
    LET h == chk["hasCriticalPermissions"] IN
    /\ h.check["READ_PHONE_STATE"] = "none"
    /\ \A m \in Perms : h.check[m] = "granted" => Granted(m)
    /\ h.at = "done" =>
          h.granted = (/\ h.check["READ_CALL_LOG"] = "granted"
                       /\ h.check["READ_CONTACTS"] = "granted")

\* It has returned true without the phone-state permission.
C26_Witness ==
    /\ chk["hasCriticalPermissions"].at = "done"
    /\ chk["hasCriticalPermissions"].granted
    /\ ~phoneStatePerm

C28_DocumentedFormatsAgree ==
    \A body \in MobileBodies, pre \in DocumentedPrefixes :
        (normOut.done /\ normIn = pre \o body) =>
            /\ normOut.isValid
            /\ normOut.type = "mobile"
            /\ normOut.normalized = Plus98(body)

\* C29: an input that starts with the trunk prefix 0 and whose remainder is
\* 10 or 11 digits, is not a mobile number and begins with a listed 2-digit
\* area code normalizes to isValid = true, type landline and +98 followed
\* by the remainder.
C29_LandlineAccepted ==
    \A body \in AreaCodeBodies :
        (normOut.done /\ normIn = TrunkPrefix \o body) =>
            /\ normOut.isValid
            /\ normOut.type = "landline"
            /\ normOut.normalized = Plus98(body)

\* A step by which an operation called by syncDeviceContacts returns a
\* failure to the loop: every return of createContact and updateContact
\* before the device step, but for createContact finding the user's own row.
PassAItemFailed(p) ==
    /\ proc[p].parent = "passA"
    /\ proc'[p].parent = "none"
    /\ \/ proc[p].at \in {"u_owner", "u_dups", "u_update", "c_insert"}
       \/ /\ proc[p].at = "c_query"
          /\ \A r \in RowsWithNumber(proc[p].norm) :
                r.created_by_user_id # proc[p].user

\* An iteration of syncServerContactsToDevice whose device write threw:
\* the contact is counted neither as added nor as updated although its
\* name is not the one of the device contact found in the snapshot.
PassBItemFailed ==
    /\ brun.at = "b_item" /\ brun.idx <= Len(brun.server)
    /\ brun' # brun
    /\ brun'.added = brun.added /\ brun'.updated = brun.updated
    /\ LET serverContact == brun.server[brun.idx]
           found == BookMatches(brun.snap, serverContact.phone_number)
       IN  found # {} => brun.snap[FirstIn(found)].firstName # serverContact.name

\* C30: in Pass A and Pass B an item that fails (a rejected remote write, a
\* device call that throws) adds one error string, the loop goes on with
\* the next item, and the pass returns success = true.
C30_ItemFailureCollected ==
    [][/\ \A p \in Procs :
            /\ PassAItemFailed(p) =>
                  /\ proc'[p].errors = proc[p].errors + 1
                  /\ proc'[p].at = "a_item"
                  /\ proc'[p].idx = proc[p].idx + 1
            /\ (proc[p].kind = "passA" /\ proc'[p].at = "idle") =>
                  proc'[p].result = "ok"
       /\ PassBItemFailed =>
            /\ brun'.errors = brun.errors + 1
            /\ brun'.at = "b_item"
            /\ brun'.idx = brun.idx + 1
       /\ (brun.at = "b_item" /\ brun'.at = "idle") => brun'.result = "ok"]_vars

\* C31: registerTaskAsync is invoked for a task only while the task is not
\* registered, whatever the order and interleaving of the register and
\* unregister calls, and a register call made while the facility is
\* available returns success.
C31_RegistrationIdempotent ==
    [][/\ \A t \in Tasks :
            registerTaskAsyncCalls'[t] > registerTaskAsyncCalls[t] =>
                t \notin registered
       /\ \A c \in RegCallers :
            (reg'[c].kind = "register" /\ reg'[c].at = "done"
                /\ bgStatus = "Available") => reg'[c].result = "success"]_vars

\* C32: once signOut and every auth callback have finished and the user is
\* signed out, the stored user id is absent.
C32_SignedOutNoStoredUser ==
    (/\ so = "idle"
     /\ \A e \in AuthEvents : handler[e].at \in {"none", "done"}
     /\ session = "none"
     /\ user = "none") => storedUser = "none"

\* C33: no step of a Pass A run, the createContact and updateContact calls
\* it makes included, changes the device address book.
C33_PassALeavesDevice ==
    [][\A p \in Procs :
          (proc[p].kind = "passA" \/ proc[p].parent = "passA") /\ proc'[p] # proc[p]
              => device' = device]_vars

\* C34: the run of syncDeviceContacts that follows a run without errors of
\* the same user, with nothing else done in between or beside it, writes
\* nothing to the remote store and returns added = 0 and updated = 0.
C34_PassAFixpoint ==
    [][\A p \in Procs :
          (proc[p].rerun /\ proc'[p] # proc[p]) =>
              /\ contacts' = contacts
              /\ proc'[p].at = "idle" =>
                    proc'[p].added = 0 /\ proc'[p].updated = 0]_vars

\* C35: the counters of a syncDeviceContacts run, which syncAllDeviceData
\* reports as contacts.added and contacts.updated, count the writes applied:
\* when createContact or updateContact returns to the loop, added grows by
\* one exactly when the create inserted or found the user's contact, and
\* updated grows by one exactly when the update was written.
C35_CountsAreWrites ==
    [][\A p \in Procs :
          (proc[p].parent = "passA" /\ proc'[p].parent = "none") =>
              /\ proc'[p].added = proc[p].added +
                    (IF proc[p].kind = "create" /\ ~PassAItemFailed(p)
                     THEN 1 ELSE 0)
              /\ proc'[p].updated = proc[p].updated +
                    (IF proc[p].kind = "update" /\ ~PassAItemFailed(p)
                     THEN 1 ELSE 0)]_vars

\* C36: when requestPermissions has resolved true, hasCriticalPermissions
\* returns true (no permission is ever revoked in GateSpec): a granted request
\* covers the call-log read and the contacts read.
C36_GrantedCoversCritical ==
    \A c \in GateCallers :
        (/\ rcall[c].at = "done"
         /\ rcall[c].result
         /\ chk["hasCriticalPermissions"].at = "done")
            => chk["hasCriticalPermissions"].granted

\* C37: the gateway returns to Idle in the wrapper and in the native module:
\* when every earlier request cycle has ended (granted, denied or timed out),
\* the native module takes the next request as a new OS request and does not
\* reject it as already requesting, also when the OS has not delivered the
\* result of an earlier request.
C37_GatewayReturnsToIdle ==
    [][\A k \in GateCallers :
          (/\ flow[k].os = "sent"
           /\ flow'[k].os # "sent"
           /\ \A j \in GateCallers \ {k} :
                 /\ flow[j].state \in {"none", "resolved"}
                 /\ flow[j].os # "sent")
              => ~nativeRequesting]_vars

\* C38: the in-progress flag is only cleared by the invocation that set it:
\* every step that sets isSyncing to false is the cleanup of the holder, which
\* returns in that step, and no other task or syncAllDeviceData invocation
\* moves in it.
C38_ClearedByOwner ==
    [][(isSyncing /\ ~isSyncing') =>
          /\ holder \in Manual \cup Tasks
          /\ IF holder \in Tasks
             THEN /\ tpc[holder] # "done" /\ tpc'[holder] = "done"
                  /\ \A t \in Tasks \ {holder} : tpc'[t] = tpc[t]
                  /\ \A i \in Manual : pc'[i] = pc[i]
             ELSE /\ pc[holder] # "done" /\ pc'[holder] = "done"
                  /\ \A i \in Callers \ {holder} : pc'[i] = pc[i]
                  /\ \A t \in Tasks : tpc'[t] = tpc[t]]_vars

C38_Witness ==
    \E t \in Tasks, i \in Manual :
        /\ isSyncing
        /\ holder = t
        /\ tpc[t] \notin {"idle", "done"}
        /\ pc[i] = "done" /\ res[i] = "skipped"
====
